---- MODULE Spec2Model ----
(***************************************************************************)
(* Model of the sampling loop / tool-execution engine of                   *)
(* computer_use_api.py: ToolResult, ToolCollection.run,                    *)
(* ComputerUseAPI.run_conversation, _sampling_loop, _response_to_params    *)
(* and _make_api_tool_result; the concrete tools; ExtensionRegistry and    *)
(* ExtensionManager of extension_module.py; the listening thread of        *)
(* voice_interaction.py.                                                   *)
(***************************************************************************)
EXTENDS Integers, Sequences, FiniteSets, TLC

VARIABLES
    pc,                   \* position of _sampling_loop
    messages,             \* the conversation log (the list passed to the loop)
    idx,                  \* position of for content_block in response_params
    tool_result_content,  \* the list built during one iteration
    sent,                 \* messages= argument of the latest create() call
    ncalls,               \* number of create() calls issued
    api_cb,               \* error arguments api_response_callback was called with
    out_cb,               \* number of output_callback calls
    tool_cb,              \* ids tool_output_callback was called with
    runs,                 \* number of ToolCollection.run calls
    invoked,              \* number of tool(**tool_input) invocations
    last_run,             \* latest ToolCollection.run call: name, what the tool did, result
    failure,              \* the exception the model-service call raised, if any
    cv_pc,                \* ConvSpec: "input" or "converted"
    cv_result,            \* ConvSpec: the ToolResult converted
    cv_id,                \* ConvSpec: the tool_use_id passed
    cv_item,              \* ConvSpec: the item _make_api_tool_result returned
    heap,                 \* ReplSpec: the ToolResult objects, by identity
    rp_call,              \* ReplSpec: latest replace call: self, kwargs, returned object
    fs,                   \* FileTool: the file system, path -> absent / dir / file content
    file_history,         \* FileTool._file_history, path -> saved contents
    f_last,               \* FileTool: latest __call__: arguments, state before, outcome
    f_n,                  \* FileTool: number of __call__s made
    t_pc,                 \* ComputerTool / CommandTool: "ready" or "called"
    t_call,               \* ComputerTool / CommandTool: the call and what the OS does in it
    t_events,             \* ComputerTool / CommandTool: OS operations performed, in order
    t_outcome,            \* ComputerTool / CommandTool: how the call ended
    x_inst,               \* extensions: the Extension objects created, by identity
    x_reg,                \* ExtensionRegistry.extensions, name -> object (0: no entry)
    x_last,               \* extensions: the latest call and what it did
    x_n,                  \* extensions: number of calls made
    v_active,             \* VoiceInteraction.active
    v_threads,            \* VoiceInteraction: where each listening thread started is
    v_last,               \* VoiceInteraction: the latest start_listening / stop_listening
    v_speech_recognition  \* VoiceInteraction.speech_recognition was found

loopVars == <<pc, messages, idx, tool_result_content, sent, ncalls, api_cb,
              out_cb, tool_cb, runs, invoked, last_run, failure>>
convVars == <<cv_pc, cv_result, cv_id, cv_item>>
heapVars == <<heap, rp_call>>
fileVars == <<fs, file_history, f_last, f_n>>
toolVars == <<t_pc, t_call, t_events, t_outcome>>
extVars == <<x_inst, x_reg, x_last, x_n>>
voiceVars == <<v_active, v_threads, v_last, v_speech_recognition>>

vars == <<loopVars, convVars, heapVars, fileVars, toolVars, extVars, voiceVars>>

\* What a step of each part leaves alone.
notLoop == <<convVars, heapVars, fileVars, toolVars, extVars, voiceVars>>
notConv == <<loopVars, heapVars, fileVars, toolVars, extVars, voiceVars>>
notRepl == <<loopVars, convVars, fileVars, toolVars, extVars, voiceVars>>
notFile == <<loopVars, convVars, heapVars, toolVars, extVars, voiceVars>>
notTool == <<loopVars, convVars, heapVars, fileVars, extVars, voiceVars>>
notExt == <<loopVars, convVars, heapVars, fileVars, toolVars, voiceVars>>
notVoice == <<loopVars, convVars, heapVars, fileVars, toolVars, extVars>>

\* Python's None, kept apart from every string the program builds.
None == "<None>"

\* Python truthiness of an Optional[str]: None and "" are falsy.
Truthy(s) == s # None /\ s # ""

----------------------------------------------------------------------------
\* Bounds of the model.

\* Total number of content blocks the model service returns in one run.
MaxBlocks == 3

----------------------------------------------------------------------------
\* ToolResult

ToolResult(output, error, base64_image, system) ==
    [output |-> output, error |-> error,
     base64_image |-> base64_image, system |-> system]

Fields == {"output", "error", "base64_image", "system"}

\* The object a replace call builds: a copy of original with setattr(k, v)
\* applied for every item of kwargs.
Replaced(original, kwargs) ==
    [f \in Fields |-> IF f \in DOMAIN kwargs THEN kwargs[f] ELSE original[f]]

\* Mutant: setattr is applied to self, and the untouched copy is returned.
replace_OnSelf(h, self, kwargs) ==
    [heap |-> Append([h EXCEPT ![self] = Replaced(h[self], kwargs)], h[self]),
     ret  |-> Len(h) + 1]

\* ToolResult.replace on the object self of the heap h: the heap after the
\* call and the identity of the object returned.
replace(h, self, kwargs) ==
    [heap |-> Append(h, Replaced(h[self], kwargs)),
     ret  |-> Len(h) + 1]

----------------------------------------------------------------------------
\* ComputerUseAPI._make_api_tool_result

SystemPrefixed(system, text) == "<system>" \o system \o "</system>\n" \o text

\* A bare str as tool_result content (the error branch assigns the string
\* itself, not a list of blocks).
StrContent(text) == <<[type |-> "string", text |-> text]>>

TextBlockParam(text) == [type |-> "text", text |-> text]

ImageBlockParam(data) ==
    [type |-> "image",
     source |-> [type |-> "base64", media_type |-> "image/png", data |-> data]]

\* error_text, with the system note prepended when there is one.
ErrorText(result) ==
    IF Truthy(result.system)
    THEN SystemPrefixed(result.system, result.error)
    ELSE result.error

\* output_text, with the system note prepended when there is one.
OutputText(result) ==
    IF Truthy(result.system)
    THEN SystemPrefixed(result.system, result.output)
    ELSE result.output

\* if result.output: appends one text block.
TextPart(result) ==
    IF Truthy(result.output) THEN <<TextBlockParam(OutputText(result))>> ELSE <<>>

\* if result.base64_image: appends one image block.
ImagePart(result) ==
    IF Truthy(result.base64_image)
    THEN <<ImageBlockParam(result.base64_image)>> ELSE <<>>

ToolResultItem(content, tool_use_id, is_error) ==
    [type |-> "tool_result", content |-> content,
     tool_use_id |-> tool_use_id, is_error |-> is_error]

\* Mutant: the error branch builds its item without the correlation id.
make_api_tool_result_ErrNoId(result, tool_use_id) ==
    IF Truthy(result.error)
    THEN ToolResultItem(StrContent(ErrorText(result)), None, TRUE)
    ELSE ToolResultItem(TextPart(result) \o ImagePart(result), tool_use_id, FALSE)

\* Mutant: is_error is never set.
make_api_tool_result_NoFlag(result, tool_use_id) ==
    IF Truthy(result.error)
    THEN ToolResultItem(StrContent(ErrorText(result)), tool_use_id, FALSE)
    ELSE ToolResultItem(TextPart(result) \o ImagePart(result), tool_use_id, FALSE)

\* Mutant: the output and image blocks are built whether or not error is set
\* (if result.output not under the else).
make_api_tool_result_ErrKeepsOutput(result, tool_use_id) ==
    IF Truthy(result.error)
    THEN ToolResultItem(StrContent(ErrorText(result)) \o TextPart(result)
                            \o ImagePart(result),
                        tool_use_id, TRUE)
    ELSE ToolResultItem(TextPart(result) \o ImagePart(result), tool_use_id, FALSE)

\* Mutant: the image block is appended before the text block.
make_api_tool_result_ImageFirst(result, tool_use_id) ==
    IF Truthy(result.error)
    THEN ToolResultItem(StrContent(ErrorText(result)), tool_use_id, TRUE)
    ELSE ToolResultItem(ImagePart(result) \o TextPart(result), tool_use_id, FALSE)

make_api_tool_result(result, tool_use_id) ==
    IF Truthy(result.error)
    THEN ToolResultItem(StrContent(ErrorText(result)), tool_use_id, TRUE)
    ELSE ToolResultItem(TextPart(result) \o ImagePart(result), tool_use_id, FALSE)

----------------------------------------------------------------------------
\* ToolCollection

\* tool_map = {tool.name: tool for tool in tools}, built from ComputerTool,
\* CommandTool and FileTool.
tool_names == {"computer", "command", "str_replace_editor"}

EmptyResult == ToolResult(None, None, None, None)

\* How a call ends: it returns a value or raises an Exception.
Return(value) == [kind |-> "return", value |-> value, exc |-> None]
Raise(exc)    == [kind |-> "raise", value |-> EmptyResult, exc |-> exc]
NoOutcome     == [kind |-> "none", value |-> EmptyResult, exc |-> None]

\* What await tool(**tool_input) can do: return a ToolResult (a screenshot
\* result, an error result, a result that carries only a system note) or
\* raise an Exception (bad keyword arguments, a failing OS call).
ToolOutcomes ==
    { Return(ToolResult("Screenshot taken", None, "iVBORw0KGgo=", None)),
      Return(ToolResult(None, "No command provided.", None, None)),
      Return(ToolResult(None, None, None, "Command tool has been restarted.")),
      Raise("__call__() got an unexpected keyword argument") }

\* Mutant: no try/except around the invocation.
run_NoExcept(name, outcome) ==
    IF name \notin tool_names
    THEN [ret |-> Return(ToolResult(None, "Tool " \o name \o " is not available",
                                    None, None)),
          invoked |-> FALSE]
    ELSE [ret |-> outcome, invoked |-> TRUE]

\* ToolCollection.run: how the call ends, and whether the tool was invoked.
\* outcome is what the tool does if it is invoked.
run(name, outcome) ==
    IF name \notin tool_names
    THEN [ret |-> Return(ToolResult(None, "Tool " \o name \o " is not available",
                                    None, None)),
          invoked |-> FALSE]
    ELSE [ret |-> IF outcome.kind = "raise"
                  THEN Return(ToolResult(None,
                                         "Error executing tool " \o name \o ": "
                                             \o outcome.exc,
                                         None, None))
                  ELSE outcome,
          invoked |-> TRUE]

----------------------------------------------------------------------------
\* The model service's response blocks and _response_to_params

BetaTextBlock(text) ==
    [cls |-> "BetaTextBlock", dump |-> [type |-> "text", text |-> text]]

BetaToolUseBlock(id, name, input) ==
    [cls |-> "BetaToolUseBlock",
     dump |-> [type |-> "tool_use", id |-> id, name |-> name, input |-> input]]

\* A block that is neither text nor tool_use.
BetaOtherBlock(data) ==
    [cls |-> "BetaRedactedThinkingBlock",
     dump |-> [type |-> "redacted_thinking", data |-> data]]

\* Names the service may ask for: a registered one and an unregistered one.
RequestedNames == {"command", "browser"}

BlockKinds == {"text", "other"} \cup RequestedNames

\* The n-th block of the run, of kind k; tool_use ids are the service's
\* correlation tokens, unique per block.
ServiceBlock(k, n) ==
    IF k = "text" THEN BetaTextBlock("Done.")
    ELSE IF k = "other" THEN BetaOtherBlock("EmwK")
    ELSE BetaToolUseBlock("toolu_" \o ToString(n), k, [command |-> "dir"])

response_to_params(content) ==
    [i \in 1..Len(content) |->
        IF content[i].cls = "BetaTextBlock"
        THEN [type |-> "text", text |-> content[i].dump.text]
        ELSE content[i].dump]

----------------------------------------------------------------------------
\* Helpers over the log

RECURSIVE SumLen(_)
SumLen(msgs) ==
    IF msgs = <<>> THEN 0
    ELSE (IF Head(msgs).role = "assistant" THEN Len(Head(msgs).content) ELSE 0)
         + SumLen(Tail(msgs))

\* Blocks the service has returned so far in this run.
BlocksSoFar == SumLen(messages)

\* The local response_params: the content of the assistant message just appended.
response_params == messages[Len(messages)].content

IsToolUse(block) == block.type = "tool_use"

ToolUses(content) == SelectSeq(content, IsToolUse)

----------------------------------------------------------------------------
\* Python str operations on file contents.  A text is a sequence of
\* characters; NL is the line separator.

NL == "\n"

Alphabet == {"a", "b", NL}

\* The text as a TLA+ string, for the messages that quote it.
RECURSIVE Str(_)
Str(s) == IF s = <<>> THEN "" ELSE Head(s) \o Str(Tail(s))

\* sub occurs in s at position i (1-based).
OccursAt(s, sub, i) ==
    /\ i >= 1
    /\ i + Len(sub) - 1 <= Len(s)
    /\ \A j \in 1..Len(sub) : s[i + j - 1] = sub[j]

\* sub in s
Contains(s, sub) == \E i \in 1..(Len(s) + 1) : OccursAt(s, sub, i)

\* s.count(sub): occurrences found left to right without overlap; the empty
\* string is found once between every two characters and at both ends.
RECURSIVE CountFrom(_, _, _)
CountFrom(s, sub, i) ==
    IF i + Len(sub) - 1 > Len(s) THEN 0
    ELSE IF OccursAt(s, sub, i) THEN 1 + CountFrom(s, sub, i + Len(sub))
    ELSE CountFrom(s, sub, i + 1)

count(s, sub) == IF sub = <<>> THEN Len(s) + 1 ELSE CountFrom(s, sub, 1)

\* s.replace(old, new): every occurrence that count finds is replaced.
RECURSIVE ReplaceFrom(_, _, _, _)
ReplaceFrom(s, old, new, i) ==
    IF i > Len(s) THEN <<>>
    ELSE IF OccursAt(s, old, i) THEN new \o ReplaceFrom(s, old, new, i + Len(old))
    ELSE <<s[i]>> \o ReplaceFrom(s, old, new, i + 1)

RECURSIVE Interleave(_, _)
Interleave(s, new) ==
    IF s = <<>> THEN new ELSE new \o <<Head(s)>> \o Interleave(Tail(s), new)

\* Mutant: the result is new alone, without the text around the occurrence.
str_replace_all_NewOnly(s, old, new) == new

str_replace_all(s, old, new) ==
    IF old = <<>> THEN Interleave(s, new) ELSE ReplaceFrom(s, old, new, 1)

\* s.split('\n')
RECURSIVE split(_)
split(s) ==
    IF \A i \in 1..Len(s) : s[i] # NL THEN <<s>>
    ELSE LET i == CHOOSE k \in 1..Len(s) :
                    s[k] = NL /\ \A j \in 1..(k - 1) : s[j] # NL
         IN  <<SubSeq(s, 1, i - 1)>> \o split(SubSeq(s, i + 1, Len(s)))

\* '\n'.join(lines)
RECURSIVE join(_)
join(lines) ==
    IF lines = <<>> THEN <<>>
    ELSE IF Len(lines) = 1 THEN lines[1]
    ELSE lines[1] \o <<NL>> \o join(Tail(lines))

\* repr of a list of ints: "[1, 3]"
RECURSIVE IntsJoined(_)
IntsJoined(ns) ==
    IF ns = <<>> THEN ""
    ELSE IF Len(ns) = 1 THEN ToString(ns[1])
    ELSE ToString(ns[1]) \o ", " \o IntsJoined(Tail(ns))

ListRepr(ns) == "[" \o IntsJoined(ns) \o "]"

----------------------------------------------------------------------------
\* FileTool
\* The messages of the source quote names with backquotes; a string of this
\* module cannot hold that character, so the messages here write ' for it.

\* An Optional parameter: <<>> is None, <<v>> is the value v.
Nothing == <<>>
Some(v) == <<v>>

Absent        == [kind |-> "absent", content |-> <<>>]
Dir           == [kind |-> "dir", content |-> <<>>]
File(content) == [kind |-> "file", content |-> content]

\* path.exists()
exists(F, path) == F.fs[path].kind # "absent"

\* path.is_dir()
is_dir(F, path) == F.fs[path].kind = "dir"

\* path not in self._file_history
NoHistory == [has |-> FALSE, stack |-> <<>>]

\* The absolute paths of the model, and a relative one.
AbsolutePaths == {"C:\\a.txt", "C:\\b.txt"}
RelativePaths == {"a.txt"}

is_absolute(path) == path \in AbsolutePaths

\* str(e) of the OSError a failing stat, read or write raises.
OSErrorText == "[Errno 13] Permission denied"

\* Where the file system fails during a command, if anywhere.
Faults == {"none", "stat", "read", "write"}

\* What a method yields: the file system and history after it, and how it
\* ended.
Effect(fs_, hist_, ret) == [fs |-> fs_, hist |-> hist_, ret |-> ret]

Ok(F, output) == Effect(F.fs, F.hist, Return(ToolResult(output, None, None, None)))
Err(F, error) == Effect(F.fs, F.hist, Return(ToolResult(None, error, None, None)))
Raises(F, exc) == Effect(F.fs, F.hist, Raise(exc))

\* self._file_history[path].append(file_content), creating the list if absent
Pushed(hist_, path, content) ==
    [hist_ EXCEPT ![path] = [has |-> TRUE, stack |-> Append(@.stack, content)]]

\* f"{i+1:6}\t{line}\n" for every line of the text
RECURSIVE Numbered(_, _)
Numbered(lines, n) ==
    IF lines = <<>> THEN ""
    ELSE (IF n < 10 THEN "     " ELSE "    ") \o ToString(n) \o "\t"
             \o Str(Head(lines)) \o "\n" \o Numbered(Tail(lines), n + 1)

\* FileTool.view; view_range is an Optional list of ints.
view(F, path, view_range, fault) ==
    IF fault = "stat" THEN Raises(F, OSErrorText)
    ELSE IF is_dir(F, path)
    THEN IF view_range # Nothing /\ view_range[1] # <<>>
         THEN Err(F, "The 'view_range' parameter is not allowed when 'path' points to a directory.")
         ELSE Ok(F, "Directory listing of " \o path \o ":\n")
    ELSE IF ~exists(F, path)
    THEN Err(F, "The path " \o path \o " does not exist.")
    ELSE IF fault = "read"
    THEN Err(F, "Error reading file " \o path \o ": " \o OSErrorText)
    ELSE
      LET file_content == F.fs[path].content
          lines == split(file_content)
          shown(text) == Ok(F, "Contents of " \o path \o ":\n"
                                  \o Numbered(split(text), 1))
      IN  IF view_range = Nothing \/ view_range[1] = <<>>
          THEN shown(file_content)
          ELSE LET r == view_range[1] IN
            IF Len(r) # 2
            THEN Err(F, "Invalid 'view_range'. It should be a list of two integers.")
            ELSE IF r[1] < 1 \/ r[1] > Len(lines)
            THEN Err(F, "Invalid start line " \o ToString(r[1])
                          \o ", should be between 1 and " \o ToString(Len(lines)))
            ELSE IF r[2] # -1 /\ (r[2] < r[1] \/ r[2] > Len(lines))
            THEN Err(F, "Invalid end line " \o ToString(r[2])
                          \o ", should be between " \o ToString(r[1]) \o " and "
                          \o ToString(Len(lines)) \o " or -1")
            ELSE IF r[2] = -1
            THEN shown(join(SubSeq(lines, r[1], Len(lines))))
            ELSE shown(join(SubSeq(lines, r[1], r[2])))

\* Mutant: create overwrites an existing file.
create_Overwrites(F, path, file_text, fault) ==
    IF fault = "stat" THEN Raises(F, OSErrorText)
    ELSE IF fault = "write"
    THEN Err(F, "Error creating file " \o path \o ": " \o OSErrorText)
    ELSE Effect([F.fs EXCEPT ![path] = File(file_text)],
                [F.hist EXCEPT ![path] = [has |-> TRUE, stack |-> <<file_text>>]],
                Return(ToolResult("File created successfully at: " \o path,
                                  None, None, None)))

\* FileTool.create
create(F, path, file_text, fault) ==
    IF fault = "stat" THEN Raises(F, OSErrorText)
    ELSE IF exists(F, path)
    THEN Err(F, "File already exists at: " \o path
                  \o ". Cannot overwrite files using command 'create'.")
    ELSE IF fault = "write"
    THEN Err(F, "Error creating file " \o path \o ": " \o OSErrorText)
    ELSE Effect([F.fs EXCEPT ![path] = File(file_text)],
                [F.hist EXCEPT ![path] = [has |-> TRUE, stack |-> <<file_text>>]],
                Return(ToolResult("File created successfully at: " \o path,
                                  None, None, None)))

\* [i+1 for i, line in enumerate(file_content.split('\n')) if old_str in line]
LinesContaining(file_content, old_str) ==
    LET lines == split(file_content) IN
      SelectSeq([i \in 1..Len(lines) |-> i],
                LAMBDA i : Contains(lines[i], old_str))

NotFoundText(path, old_str) ==
    "No replacement was performed, old_str '" \o Str(old_str)
        \o "' did not appear verbatim in " \o path \o "."

MultipleText(old_str, lines) ==
    "Multiple occurrences of old_str '" \o Str(old_str) \o "' in lines "
        \o ListRepr(lines) \o ". Please ensure it is unique."

\* FileTool.str_replace
str_replace(F, path, old_str, new_str, fault) ==
    IF fault = "stat" THEN Raises(F, OSErrorText)
    ELSE IF ~exists(F, path)
    THEN Err(F, "The path " \o path \o " does not exist.")
    ELSE IF is_dir(F, path)
    THEN Err(F, "The path " \o path \o " is a directory and cannot be edited.")
    ELSE IF fault = "read"
    THEN Err(F, "Error replacing text in " \o path \o ": " \o OSErrorText)
    ELSE
      LET file_content == F.fs[path].content
          occurrences  == count(file_content, old_str)
      IN  IF occurrences = 0
          THEN Err(F, NotFoundText(path, old_str))
          ELSE IF occurrences > 1
          THEN Err(F, MultipleText(old_str, LinesContaining(file_content, old_str)))
          ELSE IF fault = "write"
          THEN Effect(F.fs, Pushed(F.hist, path, file_content),
                      Return(ToolResult(None,
                                        "Error replacing text in " \o path \o ": "
                                            \o OSErrorText,
                                        None, None)))
          ELSE Effect([F.fs EXCEPT ![path] =
                          File(str_replace_all(file_content, old_str, new_str))],
                      Pushed(F.hist, path, file_content),
                      Return(ToolResult("The file " \o path
                                            \o " has been edited. Replaced '"
                                            \o Str(old_str) \o "' with '"
                                            \o Str(new_str) \o "'.",
                                        None, None, None)))

\* Mutant: the range check lets insert_line = len(lines) + 1 through
\* (>= for > on the wrong side), which appends after the last line.
insert_OffByOne(F, path, insert_line, new_str, fault) ==
    IF fault = "stat" THEN Raises(F, OSErrorText)
    ELSE IF ~exists(F, path)
    THEN Err(F, "The path " \o path \o " does not exist.")
    ELSE IF is_dir(F, path)
    THEN Err(F, "The path " \o path \o " is a directory and cannot be edited.")
    ELSE IF fault = "read"
    THEN Err(F, "Error inserting text in " \o path \o ": " \o OSErrorText)
    ELSE
      LET file_content == F.fs[path].content
          lines        == split(file_content)
          k            == IF insert_line > Len(lines) THEN Len(lines) ELSE insert_line
      IN  IF insert_line < 0 \/ insert_line > Len(lines) + 1
          THEN Err(F, "Invalid insert_line " \o ToString(insert_line)
                        \o ", should be between 0 and " \o ToString(Len(lines)) \o ".")
          ELSE Effect([F.fs EXCEPT ![path] =
                          File(join(SubSeq(lines, 1, k) \o split(new_str)
                                      \o SubSeq(lines, k + 1, Len(lines))))],
                      Pushed(F.hist, path, file_content),
                      Return(ToolResult("The file " \o path
                                            \o " has been edited. Inserted text at line "
                                            \o ToString(insert_line) \o ".",
                                        None, None, None)))

\* FileTool.insert
insert(F, path, insert_line, new_str, fault) ==
    IF fault = "stat" THEN Raises(F, OSErrorText)
    ELSE IF ~exists(F, path)
    THEN Err(F, "The path " \o path \o " does not exist.")
    ELSE IF is_dir(F, path)
    THEN Err(F, "The path " \o path \o " is a directory and cannot be edited.")
    ELSE IF fault = "read"
    THEN Err(F, "Error inserting text in " \o path \o ": " \o OSErrorText)
    ELSE
      LET file_content == F.fs[path].content
          lines        == split(file_content)
      IN  IF insert_line < 0 \/ insert_line > Len(lines)
          THEN Err(F, "Invalid insert_line " \o ToString(insert_line)
                        \o ", should be between 0 and " \o ToString(Len(lines)) \o ".")
          ELSE IF fault = "write"
          THEN Effect(F.fs, Pushed(F.hist, path, file_content),
                      Return(ToolResult(None,
                                        "Error inserting text in " \o path \o ": "
                                            \o OSErrorText,
                                        None, None)))
          ELSE Effect([F.fs EXCEPT ![path] =
                          File(join(SubSeq(lines, 1, insert_line) \o split(new_str)
                                      \o SubSeq(lines, insert_line + 1, Len(lines))))],
                      Pushed(F.hist, path, file_content),
                      Return(ToolResult("The file " \o path
                                            \o " has been edited. Inserted text at line "
                                            \o ToString(insert_line) \o ".",
                                        None, None, None)))

\* self._file_history[path].pop(): the list without its last element
Popped(hist_, path) ==
    [hist_ EXCEPT ![path] =
        [has |-> TRUE, stack |-> SubSeq(@.stack, 1, Len(@.stack) - 1)]]

\* Mutant: undo rewrites the oldest saved content (pop(0)).
undo_edit_Oldest(F, path, fault) ==
    IF fault = "stat" THEN Raises(F, OSErrorText)
    ELSE IF ~exists(F, path)
    THEN Err(F, "The path " \o path \o " does not exist.")
    ELSE IF ~F.hist[path].has \/ F.hist[path].stack = <<>>
    THEN Err(F, "No edit history found for " \o path \o ".")
    ELSE Effect([F.fs EXCEPT ![path] = File(Head(F.hist[path].stack))],
                [F.hist EXCEPT ![path] = [has |-> TRUE, stack |-> Tail(@.stack)]],
                Return(ToolResult("Last edit to " \o path \o " undone successfully.",
                                  None, None, None)))

\* FileTool.undo_edit
undo_edit(F, path, fault) ==
    IF fault = "stat" THEN Raises(F, OSErrorText)
    ELSE IF ~exists(F, path)
    THEN Err(F, "The path " \o path \o " does not exist.")
    ELSE IF ~F.hist[path].has \/ F.hist[path].stack = <<>>
    THEN Err(F, "No edit history found for " \o path \o ".")
    ELSE
      LET previous_content == F.hist[path].stack[Len(F.hist[path].stack)] IN
        IF fault = "write"
        THEN Effect(F.fs, Popped(F.hist, path),
                    Return(ToolResult(None,
                                      "Error undoing edit in " \o path \o ": "
                                          \o OSErrorText,
                                      None, None)))
        ELSE Effect([F.fs EXCEPT ![path] = File(previous_content)],
                    Popped(F.hist, path),
                    Return(ToolResult("Last edit to " \o path
                                          \o " undone successfully.",
                                      None, None, None)))

\* The keyword arguments of FileTool.__call__.
FileArgs(command, path, file_text, view_range, old_str, new_str, insert_line) ==
    [command |-> command, path |-> path, file_text |-> file_text,
     view_range |-> view_range, old_str |-> old_str, new_str |-> new_str,
     insert_line |-> insert_line]

\* The body of the try block of FileTool.__call__.
FileDispatch(F, a, fault) ==
    IF ~is_absolute(a.path)
    THEN Err(F, "The path " \o a.path
                  \o " is not an absolute path, it should start with a drive letter.")
    ELSE IF a.command = "view" THEN view(F, a.path, a.view_range, fault)
    ELSE IF a.command = "create"
    THEN IF a.file_text = Nothing
         THEN Err(F, "Parameter 'file_text' is required for command: create")
         ELSE create(F, a.path, a.file_text[1], fault)
    ELSE IF a.command = "str_replace"
    THEN IF a.old_str = Nothing
         THEN Err(F, "Parameter 'old_str' is required for command: str_replace")
         ELSE str_replace(F, a.path, a.old_str[1],
                          IF a.new_str = Nothing THEN <<>> ELSE a.new_str[1], fault)
    ELSE IF a.command = "insert"
    THEN IF a.insert_line = Nothing
         THEN Err(F, "Parameter 'insert_line' is required for command: insert")
         ELSE IF a.new_str = Nothing
         THEN Err(F, "Parameter 'new_str' is required for command: insert")
         ELSE insert(F, a.path, a.insert_line[1], a.new_str[1], fault)
    ELSE IF a.command = "undo_edit" THEN undo_edit(F, a.path, fault)
    ELSE Err(F, "Unrecognized command " \o a.command \o ".")

\* str(e) of the TypeError that Path(None) raises.
PathTypeError == "expected str, bytes or os.PathLike object, not NoneType"

\* FileTool.__call__: Path(path) is evaluated before the try block; whatever
\* the try block raises becomes an error result.
FileCall(F, a, fault) ==
    IF a.path = None THEN Raises(F, PathTypeError)
    ELSE LET e == FileDispatch(F, a, fault) IN
      IF e.ret.kind = "raise"
      THEN Effect(e.fs, e.hist,
                  Return(ToolResult(None, "Error: " \o e.ret.exc, None, None)))
      ELSE e

NoFileArgs == FileArgs("", "", Nothing, Nothing, Nothing, Nothing, Nothing)

NoFileCall ==
    [args |-> NoFileArgs, fault |-> "none",
     before |-> [fs |-> <<>>, hist |-> <<>>], ret |-> NoOutcome]

----------------------------------------------------------------------------
\* Idle values of the parts a specification does not exercise

NoRun == [name |-> None, outcome |-> NoOutcome, result |-> NoOutcome]

NoItem == [type |-> "none", content |-> <<>>, tool_use_id |-> None,
           is_error |-> FALSE]

NoCall == [self |-> 0, kwargs |-> [f \in {} |-> None], before |-> EmptyResult,
           ret |-> 0]

LoopIdle ==
    /\ pc = "idle"
    /\ messages = <<>>
    /\ idx = 0
    /\ tool_result_content = <<>>
    /\ sent = <<>>
    /\ ncalls = 0
    /\ api_cb = <<>>
    /\ out_cb = 0
    /\ tool_cb = <<>>
    /\ runs = 0
    /\ invoked = 0
    /\ last_run = NoRun
    /\ failure = None

ConvIdle ==
    /\ cv_pc = "idle"
    /\ cv_result = EmptyResult
    /\ cv_id = None
    /\ cv_item = NoItem

HeapIdle ==
    /\ heap = <<>>
    /\ rp_call = NoCall

FileIdle ==
    /\ fs = <<>>
    /\ file_history = <<>>
    /\ f_last = NoFileCall
    /\ f_n = 0

NoToolCall == [tool |-> "none"]

ToolIdle ==
    /\ t_pc = "idle"
    /\ t_call = NoToolCall
    /\ t_events = <<>>
    /\ t_outcome = NoOutcome

NoExtCall == [op |-> "none"]

ExtIdle ==
    /\ x_inst = <<>>
    /\ x_reg = <<>>
    /\ x_last = NoExtCall
    /\ x_n = 0

VoiceIdle ==
    /\ v_active = FALSE
    /\ v_threads = <<>>
    /\ v_last = "none"
    /\ v_speech_recognition = FALSE

----------------------------------------------------------------------------
\* ComputerUseAPI.run_conversation / _sampling_loop

UserMessages == {"take a screenshot"}

Init ==
    LoopIdle /\ ConvIdle /\ HeapIdle /\ FileIdle /\ ToolIdle /\ ExtIdle /\ VoiceIdle

\* run_conversation: build the one-message log and enter the loop.
RunConversation ==
    /\ pc = "idle"
    /\ \E user_message \in UserMessages :
         messages' = <<[role |-> "user",
                        content |-> <<[type |-> "text", text |-> user_message]>>]>>
    /\ pc' = "call"
    /\ UNCHANGED <<idx, tool_result_content, sent, ncalls, api_cb, out_cb,
                   tool_cb, runs, invoked, last_run, failure, notLoop>>

\* Mutant: the next model call does not wait for the dispatch in flight.
CreateCall_Early ==
    /\ pc \in {"call", "dispatching"}
    /\ pc' = "awaiting"
    /\ sent' = messages
    /\ ncalls' = ncalls + 1
    /\ UNCHANGED <<messages, idx, tool_result_content, api_cb, out_cb,
                   tool_cb, runs, invoked, last_run, failure, notLoop>>

\* client.beta.messages.with_raw_response.create(messages=messages, ...)
CreateCall ==
    /\ pc = "call"
    /\ pc' = "awaiting"
    /\ sent' = messages
    /\ ncalls' = ncalls + 1
    /\ UNCHANGED <<messages, idx, tool_result_content, api_cb, out_cb,
                   tool_cb, runs, invoked, last_run, failure, notLoop>>

\* What create() raises: a rejected request, a transport error.
CreateErrors == {"APIStatusError", "APIConnectionError"}

\* Mutant: the except-branch reports the error and goes round the loop again.
CreateFails_Retry ==
    /\ pc = "awaiting"
    /\ \E e \in CreateErrors :
         /\ failure' = e
         /\ api_cb' = Append(api_cb, e)
    /\ pc' = "call"
    /\ UNCHANGED <<messages, idx, tool_result_content, sent, ncalls, out_cb,
                   tool_cb, runs, invoked, last_run, notLoop>>

\* create() raises: except-branch, failure callback, return messages.
CreateFails ==
    /\ pc = "awaiting"
    /\ \E e \in CreateErrors :
         /\ failure' = e
         /\ api_cb' = Append(api_cb, e)
    /\ pc' = "done"
    /\ UNCHANGED <<messages, idx, tool_result_content, sent, ncalls, out_cb,
                   tool_cb, runs, invoked, last_run, notLoop>>

\* create() returns, the callback is called with None, then parse() raises
\* APIResponseValidationError: except-branch, failure callback, return.
ParseFails ==
    /\ pc = "awaiting"
    /\ failure' = "APIResponseValidationError"
    /\ api_cb' = api_cb \o <<None, "APIResponseValidationError">>
    /\ pc' = "done"
    /\ UNCHANGED <<messages, idx, tool_result_content, sent, ncalls, out_cb,
                   tool_cb, runs, invoked, last_run, notLoop>>

\* create() returns and parse() succeeds: the assistant message is appended.
Respond ==
    /\ pc = "awaiting"
    /\ \E n \in 0..(MaxBlocks - BlocksSoFar) :
         \E kinds \in [1..n -> BlockKinds] :
           LET content == [i \in 1..n |-> ServiceBlock(kinds[i], BlocksSoFar + i)]
           IN  messages' = Append(messages,
                                  [role |-> "assistant",
                                   content |-> response_to_params(content)])
    /\ api_cb' = Append(api_cb, None)
    /\ tool_result_content' = <<>>
    /\ idx' = 1
    /\ pc' = "blocks"
    /\ UNCHANGED <<sent, ncalls, out_cb, tool_cb, runs, invoked, last_run,
                   failure, notLoop>>

\* Mutant: any block may be passed on to output_callback without a dispatch.
PassBlock_AnyBlock ==
    /\ pc = "blocks"
    /\ idx <= Len(response_params)
    /\ out_cb' = out_cb + 1
    /\ idx' = idx + 1
    /\ UNCHANGED <<pc, messages, tool_result_content, sent, ncalls, api_cb,
                   tool_cb, runs, invoked, last_run, failure, notLoop>>

\* Loop body for a block that is not a tool_use: output_callback only.
PassBlock ==
    /\ pc = "blocks"
    /\ idx <= Len(response_params)
    /\ response_params[idx].type # "tool_use"
    /\ out_cb' = out_cb + 1
    /\ idx' = idx + 1
    /\ UNCHANGED <<pc, messages, tool_result_content, sent, ncalls, api_cb,
                   tool_cb, runs, invoked, last_run, failure, notLoop>>

\* Loop body for a tool_use block, up to the await of tools.run.
DispatchStart ==
    /\ pc = "blocks"
    /\ idx <= Len(response_params)
    /\ response_params[idx].type = "tool_use"
    /\ out_cb' = out_cb + 1
    /\ runs' = runs + 1
    /\ pc' = "dispatching"
    /\ UNCHANGED <<messages, idx, tool_result_content, sent, ncalls, api_cb,
                   tool_cb, invoked, last_run, failure, notLoop>>

\* tools.run completes; the result is converted, appended and reported.  An
\* exception out of tools.run is none of the three the loop catches and
\* leaves the loop.
DispatchEnd ==
    /\ pc = "dispatching"
    /\ LET block == response_params[idx] IN
       \E outcome \in ToolOutcomes :
         LET res == run(block.name, outcome) IN
           /\ invoked' = IF res.invoked THEN invoked + 1 ELSE invoked
           /\ last_run' = [name |-> block.name,
                           outcome |-> IF res.invoked THEN outcome ELSE NoOutcome,
                           result |-> res.ret]
           /\ IF res.ret.kind = "raise"
              THEN /\ pc' = "raised"
                   /\ UNCHANGED <<idx, tool_result_content, tool_cb>>
              ELSE /\ tool_result_content' =
                        Append(tool_result_content,
                               make_api_tool_result(res.ret.value, block.id))
                   /\ tool_cb' = Append(tool_cb, block.id)
                   /\ idx' = idx + 1
                   /\ pc' = "blocks"
    /\ UNCHANGED <<messages, sent, ncalls, api_cb, out_cb, runs, failure,
                   notLoop>>

\* Mutant: the loop returns after the blocks whether or not tools ran.
ReturnLog_Always ==
    /\ pc = "blocks"
    /\ idx > Len(response_params)
    /\ pc' = "done"
    /\ UNCHANGED <<messages, idx, tool_result_content, sent, ncalls, api_cb,
                   out_cb, tool_cb, runs, invoked, last_run, failure, notLoop>>

\* if not tool_result_content: return messages
ReturnLog ==
    /\ pc = "blocks"
    /\ idx > Len(response_params)
    /\ tool_result_content = <<>>
    /\ pc' = "done"
    /\ UNCHANGED <<messages, idx, tool_result_content, sent, ncalls, api_cb,
                   out_cb, tool_cb, runs, invoked, last_run, failure, notLoop>>

\* Mutant: the tool results are not appended before the next call.
FoldResults_NoAppend ==
    /\ pc = "blocks"
    /\ idx > Len(response_params)
    /\ tool_result_content # <<>>
    /\ pc' = "call"
    /\ UNCHANGED <<messages, idx, tool_result_content, sent, ncalls, api_cb,
                   out_cb, tool_cb, runs, invoked, last_run, failure, notLoop>>

\* Mutant: the tool results are appended as an assistant message.
FoldResults_AsAssistant ==
    /\ pc = "blocks"
    /\ idx > Len(response_params)
    /\ tool_result_content # <<>>
    /\ messages' = Append(messages,
                          [role |-> "assistant", content |-> tool_result_content])
    /\ pc' = "call"
    /\ UNCHANGED <<idx, tool_result_content, sent, ncalls, api_cb, out_cb,
                   tool_cb, runs, invoked, last_run, failure, notLoop>>

\* messages.append({"content": tool_result_content, "role": "user"})
FoldResults ==
    /\ pc = "blocks"
    /\ idx > Len(response_params)
    /\ tool_result_content # <<>>
    /\ messages' = Append(messages,
                          [role |-> "user", content |-> tool_result_content])
    /\ pc' = "call"
    /\ UNCHANGED <<idx, tool_result_content, sent, ncalls, api_cb, out_cb,
                   tool_cb, runs, invoked, last_run, failure, notLoop>>

Next ==
    \/ RunConversation
    \/ CreateCall
    \/ CreateFails
    \/ ParseFails
    \/ Respond
    \/ PassBlock
    \/ DispatchStart
    \/ DispatchEnd
    \/ ReturnLog
    \/ FoldResults

Spec == Init /\ [][Next]_vars

----------------------------------------------------------------------------
\* Properties of the sampling loop

Last(s) == s[Len(s)]

IsText(block) == block.type = "text"

\* The loop is working through the blocks of the response just appended.
InTurn == pc \in {"blocks", "dispatching"}

AtEndOfBlocks == pc = "blocks" /\ idx > Len(response_params)

HasToolUse == ToolUses(response_params) # <<>>

\* The user-role messages the loop appended (every user message but the first).
FoldedAt == {j \in 2..Len(messages) : messages[j].role = "user"}

\* C1: a response without tool invocations makes the loop return on that
\* iteration with no further model call; after a response with at least one
\* tool invocation the loop cannot return, and the only way on is through
\* exactly one more model call.
C1_Step ==
    /\ (InTurn /\ ~HasToolUse) => (ncalls' = ncalls /\ pc' \in {"blocks", "done"})
    /\ (AtEndOfBlocks /\ ~HasToolUse) => pc' = "done"
    /\ (InTurn /\ HasToolUse) =>
          (ncalls' = ncalls /\ pc' \in {"blocks", "dispatching", "call"})
    /\ (AtEndOfBlocks /\ HasToolUse) => pc' = "call"
    /\ pc = "call" => (pc' = "awaiting" /\ ncalls' = ncalls + 1)

C1_ReturnOrOneMoreCall == [][C1_Step]_vars

\* Both cases of C1 have happened: a response with a tool invocation was
\* followed by a second call, and a response without one ended the loop.
C1_Witness ==
    /\ pc = "done"
    /\ failure = None
    /\ ncalls = 2
    /\ ToolUses(messages[2].content) # <<>>
    /\ ~HasToolUse

\* C2: the user message appended after a response holds exactly one
\* tool_result per tool invocation of that response, in the same order, each
\* echoing the invocation's id verbatim; text items add nothing.
ToolResultsMatch(assistant, user) ==
    LET uses == ToolUses(assistant.content) IN
      /\ Len(user.content) = Len(uses)
      /\ \A i \in 1..Len(uses) :
           /\ user.content[i].type = "tool_result"
           /\ user.content[i].tool_use_id = uses[i].id

C2_ResultsEchoIdsInOrder ==
    \A j \in FoldedAt :
      /\ messages[j - 1].role = "assistant"
      /\ ToolResultsMatch(messages[j - 1], messages[j])

\* A response with two tool invocations and a text item between them has
\* been folded, one of the two results being an error.
C2_Witness ==
    \E j \in FoldedAt :
      /\ Len(messages[j].content) = 2
      /\ Len(messages[j - 1].content) = 3
      /\ IsText(messages[j - 1].content[2])
      /\ messages[j].content[1].is_error # messages[j].content[2].is_error

\* C3: when the model-service call fails the failure callback gets the error
\* and the loop returns at once: no further model call, no tool dispatch, and
\* the log returned is the log that was sent with the failed call.
C3_Inv ==
    failure # None =>
      /\ pc = "done"
      /\ api_cb # <<>>
      /\ Last(api_cb) = failure
      /\ Len(SelectSeq(api_cb, LAMBDA e : e # None)) = 1
      /\ messages = sent

C3_Step ==
    (failure' # None) =>
      /\ ncalls' = ncalls
      /\ runs' = runs
      /\ invoked' = invoked
      /\ messages' = messages

C3_FailureEndsLoop == []C3_Inv /\ [][C3_Step]_vars

\* The second model call, sent with the folded tool results, has failed.
C3_Witness ==
    /\ failure = "APIResponseValidationError"
    /\ ncalls = 2
    /\ Len(sent) = 3

\* C4: ToolCollection.run never raises; an unregistered name gives the error
\* "Tool <name> is not available" without invoking any tool, and a raising
\* tool gives "Error executing tool <name>: <message>".
C4_RunNeverRaises ==
    /\ pc # "raised"
    /\ last_run # NoRun =>
         /\ last_run.result.kind = "return"
         /\ last_run.name \notin tool_names =>
              /\ last_run.outcome = NoOutcome
              /\ last_run.result.value =
                   ToolResult(None, "Tool " \o last_run.name \o " is not available",
                              None, None)
         /\ last_run.outcome.kind = "raise" =>
              last_run.result.value =
                ToolResult(None,
                           "Error executing tool " \o last_run.name \o ": "
                               \o last_run.outcome.exc,
                           None, None)

\* In one turn an unregistered tool was asked for and then a registered
\* tool raised.
C4_Witness ==
    /\ pc = "blocks"
    /\ Len(tool_result_content) = 2
    /\ tool_result_content[1].content = StrContent("Tool browser is not available")
    /\ last_run.outcome.kind = "raise"
    /\ invoked = 1

\* C5: a failing tool invocation never aborts the loop: it yields a
\* tool_result with is_error = true, the remaining invocations of the
\* response are dispatched and folded, the next model call is issued, and the
\* loop ends only on a response without tool invocations or on a failure of
\* the model-service call.
FailedRun(r) ==
    \/ r.name \notin tool_names
    \/ r.outcome.kind = "raise"
    \/ Truthy(r.outcome.value.error)

C5_Inv ==
    /\ pc # "raised"
    /\ pc = "done" => (failure # None \/ ~HasToolUse)
    /\ \A j \in FoldedAt :
         Len(messages[j].content) = Len(ToolUses(messages[j - 1].content))

C5_Step ==
    /\ (pc = "dispatching" /\ FailedRun(last_run')) =>
         /\ pc' = "blocks"
         /\ idx' = idx + 1
         /\ tool_result_content' # <<>>
         /\ Len(tool_result_content') = Len(tool_result_content) + 1
         /\ Last(tool_result_content').is_error
         /\ Last(tool_result_content').tool_use_id = response_params[idx].id
    /\ (pc = "blocks" /\ idx <= Len(response_params)
          /\ IsToolUse(response_params[idx])) => pc' = "dispatching"
    /\ (AtEndOfBlocks /\ tool_result_content # <<>>) =>
         (pc' = "call" /\ Last(messages').content = tool_result_content)
    /\ pc = "call" => pc' = "awaiting"

C5_ToolFailureNotFatal == []C5_Inv /\ [][C5_Step]_vars

\* A failed invocation and the invocation after it were both folded and
\* the next model call was issued.
C5_Witness ==
    /\ pc = "awaiting"
    /\ ncalls = 2
    /\ Len(Last(messages).content) = 2
    /\ Last(messages).content[1].is_error
    /\ ~Last(messages).content[2].is_error

\* C6: first response with exactly one tool invocation, second response
\* text only.
C6_Scenario ==
    /\ pc = "done"
    /\ failure = None
    /\ ncalls = 2
    /\ Len(ToolUses(messages[2].content)) = 1
    /\ Last(messages).role = "assistant"
    /\ Last(messages).content # <<>>
    /\ \A i \in 1..Len(Last(messages).content) : IsText(Last(messages).content[i])

\* C6 as claimed: the second call is sent with 3 messages and the loop
\* returns a log of 3 messages.
C6_ReturnsThreeMessages ==
    C6_Scenario => (Len(sent) = 3 /\ Len(messages) = 3)

\* C6 as amended: the second call is sent with the 3-message log (initial
\* user, assistant, user tool-result) and the loop returns a log of 4
\* messages, the 3 that were sent followed by the text-only assistant message.
C6_ReturnsFourMessages ==
    C6_Scenario =>
      /\ Len(sent) = 3
      /\ <<sent[1].role, sent[2].role, sent[3].role>> = <<"user", "assistant", "user">>
      /\ sent[3].content[1].type = "tool_result"
      /\ Len(messages) = 4
      /\ SubSeq(messages, 1, 3) = sent

C6_Witness == C6_Scenario

\* C7: every message the loop appends has a non-empty content sequence.
C7_AppendedContentNonEmpty ==
    \A j \in 2..Len(messages) : messages[j].content # <<>>

----------------------------------------------------------------------------
\* _make_api_tool_result applied to every ToolResult over small field values

ConvOutputs == {None, "", "X=10,Y=20"}
ConvErrors  == {None, "", "No command provided."}
ConvImages  == {None, "", "iVBORw0KGgo="}
ConvSystems == {None, "", "Command tool has been restarted."}
ConvIds     == {"toolu_1", "toolu_2"}

ConvInit ==
    /\ LoopIdle
    /\ HeapIdle
    /\ FileIdle
    /\ ToolIdle
    /\ ExtIdle /\ VoiceIdle
    /\ cv_pc = "input"
    /\ cv_result \in {ToolResult(o, e, i, s) :
                        o \in ConvOutputs, e \in ConvErrors,
                        i \in ConvImages, s \in ConvSystems}
    /\ cv_id \in ConvIds
    /\ cv_item = NoItem

Convert ==
    /\ cv_pc = "input"
    /\ cv_item' = make_api_tool_result(cv_result, cv_id)
    /\ cv_pc' = "converted"
    /\ UNCHANGED <<cv_result, cv_id, notConv>>

ConvNext == Convert

ConvSpec == ConvInit /\ [][ConvNext]_vars

\* C8: a ToolResult whose error is set (a non-empty string) converts to an
\* item with is_error = true whose content is the error text alone, with the
\* system note prepended when there is one; output and image are left out.
C8_ErrorConversion ==
    (cv_pc = "converted" /\ Truthy(cv_result.error)) =>
      /\ cv_item.type = "tool_result"
      /\ cv_item.tool_use_id = cv_id
      /\ cv_item.is_error = TRUE
      /\ Len(cv_item.content) = 1
      /\ cv_item.content[1].text =
           IF Truthy(cv_result.system)
           THEN "<system>" \o cv_result.system \o "</system>\n" \o cv_result.error
           ELSE cv_result.error
      /\ \A i \in 1..Len(cv_item.content) :
           cv_item.content[i].type \notin {"text", "image"}

\* An error result that also carries output, image and system note.
C8_Witness ==
    /\ cv_pc = "converted"
    /\ Truthy(cv_result.error)
    /\ Truthy(cv_result.output)
    /\ Truthy(cv_result.base64_image)
    /\ Truthy(cv_result.system)

\* C9: a ToolResult whose error is not set converts to an item with
\* is_error = false whose blocks are a text block (output, system note
\* prepended) iff output is set, then an image block iff an image is set; with
\* neither, also when only a system note is set, the block list is empty.
C9_OutputConversion ==
    (cv_pc = "converted" /\ ~Truthy(cv_result.error)) =>
      LET c      == cv_item.content
          hasOut == Truthy(cv_result.output)
          hasImg == Truthy(cv_result.base64_image)
      IN  /\ cv_item.type = "tool_result"
          /\ cv_item.tool_use_id = cv_id
          /\ cv_item.is_error = FALSE
          /\ Len(c) = (IF hasOut THEN 1 ELSE 0) + (IF hasImg THEN 1 ELSE 0)
          /\ hasOut =>
               /\ c[1].type = "text"
               /\ c[1].text =
                    IF Truthy(cv_result.system)
                    THEN "<system>" \o cv_result.system \o "</system>\n"
                             \o cv_result.output
                    ELSE cv_result.output
          /\ hasImg =>
               /\ c[Len(c)].type = "image"
               /\ c[Len(c)].source.data = cv_result.base64_image
          /\ (~hasOut /\ ~hasImg) => c = <<>>

\* A result with output, image and system note and no error.
C9_Witness ==
    /\ cv_pc = "converted"
    /\ cv_result.error = None
    /\ Truthy(cv_result.output)
    /\ Truthy(cv_result.base64_image)
    /\ Truthy(cv_result.system)
    /\ Len(cv_item.content) = 2

----------------------------------------------------------------------------
\* ToolResult.replace over a heap of ToolResult objects

\* Number of ToolResult objects in the heap.
MaxObjects == 2

InitialResults ==
    {ToolResult(o, e, i, s) :
       o \in {None, "out"}, e \in {None, "e"}, i \in {None, "aW1n"},
       s \in {None, "note"}}

\* The keyword arguments of a replace call: any subset of the fields, each
\* given None or a new value.
Kwargs == UNION {[S -> {None, "x"}] : S \in SUBSET Fields}

ReplInit ==
    /\ LoopIdle
    /\ ConvIdle
    /\ FileIdle
    /\ ToolIdle
    /\ ExtIdle /\ VoiceIdle
    /\ heap \in {<<r>> : r \in InitialResults}
    /\ rp_call = NoCall

Replace ==
    /\ Len(heap) < MaxObjects
    /\ \E self \in 1..Len(heap) :
         \E kwargs \in Kwargs :
           LET r == replace(heap, self, kwargs) IN
             /\ heap' = r.heap
             /\ rp_call' = [self |-> self, kwargs |-> kwargs,
                            before |-> heap[self], ret |-> r.ret]
    /\ UNCHANGED notRepl

ReplNext == Replace

ReplSpec == ReplInit /\ [][ReplNext]_vars

\* C10: replace returns a new ToolResult in which each given field has the
\* given value and every other field the original's value, and the original
\* is as it was before the call.
C10_ReplaceCopies ==
    rp_call.ret # 0 =>
      /\ rp_call.ret # rp_call.self
      /\ \A f \in Fields :
           heap[rp_call.ret][f] =
             IF f \in DOMAIN rp_call.kwargs
             THEN rp_call.kwargs[f] ELSE rp_call.before[f]
      /\ heap[rp_call.self] = rp_call.before

\* replace(output="x") on a result with error = "e" and no output.
C10_Witness ==
    /\ rp_call.ret # 0
    /\ DOMAIN rp_call.kwargs = {"output"}
    /\ rp_call.kwargs["output"] = "x"
    /\ rp_call.before.error = "e"
    /\ rp_call.before.output = None
    /\ heap[rp_call.ret].output = "x"
    /\ heap[rp_call.ret].error = "e"

----------------------------------------------------------------------------
\* EditSpec: one FileTool command on every small file, with every small
\* argument, optionally followed by the reverse str_replace.

MaxLen == 3     \* longest file content at the start
MaxArg == 2     \* longest old_str / new_str / file_text argument

RECURSIVE TextsOfLen(_)
TextsOfLen(n) ==
    IF n = 0 THEN {<<>>}
    ELSE {Append(t, c) : t \in TextsOfLen(n - 1), c \in Alphabet}

Texts(n) == UNION {TextsOfLen(k) : k \in 0..n}

\* An Optional argument over the set S.
Opt(S) == {Nothing} \cup {Some(v) : v \in S}

EditPath == "C:\\a.txt"

EditInit ==
    /\ \E e \in {Absent, Dir} \cup {File(t) : t \in Texts(MaxLen)} :
         fs = [p \in AbsolutePaths |-> IF p = EditPath THEN e ELSE Absent]
    /\ file_history = [p \in AbsolutePaths |-> NoHistory]
    /\ f_last = NoFileCall
    /\ f_n = 0
    /\ LoopIdle /\ ConvIdle /\ HeapIdle /\ ToolIdle /\ ExtIdle /\ VoiceIdle

\* One await of FileTool.__call__(**a) during which the file system fails as
\* fault says.
FileCommand(a, fault) ==
    LET F == [fs |-> fs, hist |-> file_history]
        e == FileCall(F, a, fault)
    IN  /\ fs' = e.fs
        /\ file_history' = e.hist
        /\ f_last' = [args |-> a, fault |-> fault, before |-> F, ret |-> e.ret]
        /\ f_n' = f_n + 1
        /\ UNCHANGED notFile

EditCreate ==
    /\ f_n = 0
    /\ \E file_text \in Opt(Texts(MaxArg)), fault \in {"none", "stat", "write"} :
         FileCommand(FileArgs("create", EditPath, file_text, Nothing, Nothing,
                              Nothing, Nothing), fault)

EditStrReplace ==
    /\ f_n = 0
    /\ \E old_str \in Opt(Texts(MaxArg)), new_str \in Opt(Texts(MaxArg)),
          fault \in Faults :
         FileCommand(FileArgs("str_replace", EditPath, Nothing, Nothing, old_str,
                              new_str, Nothing), fault)

EditInsert ==
    /\ f_n = 0
    /\ \E insert_line \in Opt(-1..(MaxLen + 2)), new_str \in Opt(Texts(MaxArg)),
          fault \in Faults :
         FileCommand(FileArgs("insert", EditPath, Nothing, Nothing, Nothing,
                              new_str, insert_line), fault)

\* The latest command returned a result without an error.
Succeeded(c) == c.ret.kind = "return" /\ c.ret.value.error = None

\* The latest command returned a result with an error and no output.
Failed(c) ==
    /\ c.ret.kind = "return"
    /\ c.ret.value.error # None
    /\ c.ret.value.output = None

\* After a successful str_replace(old_str, new_str): str_replace(new_str,
\* old_str) on the same path.
EditReverse ==
    /\ f_n = 1
    /\ f_last.args.command = "str_replace"
    /\ Succeeded(f_last)
    /\ \E fault \in {"none", "write"} :
         FileCommand(FileArgs("str_replace", EditPath, Nothing, Nothing,
                              Some(IF f_last.args.new_str = Nothing THEN <<>>
                                   ELSE f_last.args.new_str[1]),
                              f_last.args.old_str, Nothing), fault)

EditNext == EditCreate \/ EditStrReplace \/ EditInsert \/ EditReverse

EditSpec == EditInit /\ [][EditNext]_vars

\* The latest command reached the named method with these arguments read and
\* the file's content in hand.
ReadFile(c, command) ==
    /\ c.args.command = command
    /\ c.before.fs[c.args.path].kind = "file"
    /\ c.fault \notin {"stat", "read"}

Before(c) == c.before.fs[c.args.path].content

NothingWritten(c) == fs = c.before.fs /\ file_history = c.before.hist

\* The line (1-based) in which position i of the text lies.
LineOf(s, i) == 1 + Cardinality({j \in 1..(i - 1) : s[j] = NL})

RECURSIVE Ascending(_)
Ascending(S) ==
    IF S = {} THEN <<>>
    ELSE LET m == CHOOSE x \in S : \A y \in S : x <= y
         IN  <<m>> \o Ascending(S \ {m})

\* The lines in which an occurrence of sub in s starts, in ascending order.
OccurrenceLines(s, sub) ==
    Ascending({LineOf(s, i) : i \in {k \in 1..(Len(s) + 1) : OccursAt(s, sub, k)}})

\* C12: str_replace on a file in which old_str occurs zero times or at least
\* twice writes nothing (content and undo history are as before) and returns
\* an error; with at least two occurrences the error lists the line number of
\* every occurrence.
C12_AmbiguousReplaceRejected ==
    (/\ ReadFile(f_last, "str_replace")
     /\ f_last.args.old_str # Nothing
     /\ count(Before(f_last), f_last.args.old_str[1]) # 1)
    => /\ Failed(f_last)
       /\ NothingWritten(f_last)
       /\ count(Before(f_last), f_last.args.old_str[1]) >= 2
            => f_last.ret.value.error =
                 MultipleText(f_last.args.old_str[1],
                              OccurrenceLines(Before(f_last), f_last.args.old_str[1]))

\* The number of positions of s at which sub occurs, overlapping ones included.
Occurrences(s, sub) == Cardinality({i \in 1..(Len(s) + 1) : OccursAt(s, sub, i)})

\* The step is the reverse str_replace(new_str, old_str) that follows a
\* successful str_replace(old_str, new_str) on a file that held old_str exactly
\* once, and the file system does not fail in it.
C13_ReverseStep ==
    /\ f_n = 1 /\ f_n' = 2
    /\ f_last.args.command = "str_replace"
    /\ Succeeded(f_last)
    /\ count(Before(f_last), f_last.args.old_str[1]) = 1
    /\ f_last'.fault = "none"

C13_Restored ==
    /\ Succeeded(f_last')
    /\ fs'[EditPath] = File(Before(f_last))

\* C13 as stated: for every file that holds old_str exactly once and every
\* new_str, str_replace(old_str, new_str) followed by str_replace(new_str,
\* old_str) both succeed and the file has its original content again.
C13_RoundTrip == [][C13_ReverseStep => C13_Restored]_vars

\* C13 amended: the same, for the files in which, after the first
\* replacement, new_str occurs at the place of the replacement only.
C13_RoundTripWhenNewIsUnique ==
    [][(C13_ReverseStep /\ Occurrences(fs[EditPath].content, f_last'.args.old_str[1]) = 1)
         => C13_Restored]_vars

\* "a\n" edited to "b\n" and back.
C13_Witness ==
    /\ f_n = 2
    /\ Succeeded(f_last)
    /\ f_last.args.old_str = Some(<<"b">>)
    /\ f_last.args.new_str = Some(<<"a">>)
    /\ f_last.before.fs[EditPath] = File(<<"b", NL>>)
    /\ fs[EditPath] = File(<<"a", NL>>)

\* C16: create on a path that exists returns an error and leaves the content
\* and the undo history as they were; create writes only when the path did
\* not exist.
C16_CreateNeverOverwrites ==
    (f_last.args.command = "create" /\ is_absolute(f_last.args.path)) =>
      /\ exists(f_last.before, f_last.args.path)
           => Failed(f_last) /\ NothingWritten(f_last)
      /\ ~NothingWritten(f_last) => ~exists(f_last.before, f_last.args.path)

\* create with file_text "b" on a file that holds "a".
C16_Witness ==
    /\ f_last.args.command = "create"
    /\ f_last.args.file_text = Some(<<"b">>)
    /\ f_last.fault = "none"
    /\ f_last.before.fs[EditPath] = File(<<"a">>)
    /\ Failed(f_last)
    /\ fs[EditPath] = File(<<"a">>)

\* C17: insert with insert_line outside [0, line count] returns an error,
\* writes nothing and pushes nothing on the undo history; inside the range the
\* new content is the first insert_line lines of the old content, then the
\* lines of new_str, then the remaining lines of the old content.
C17_InsertAtLine ==
    (/\ ReadFile(f_last, "insert")
     /\ f_last.args.insert_line # Nothing
     /\ f_last.args.new_str # Nothing)
    => LET k         == f_last.args.insert_line[1]
           lines     == split(Before(f_last))
           new_lines == split(f_last.args.new_str[1])
       IN  IF k < 0 \/ k > Len(lines)
           THEN Failed(f_last) /\ NothingWritten(f_last)
           ELSE f_last.fault = "none" =>
                  /\ Succeeded(f_last)
                  /\ fs[f_last.args.path].kind = "file"
                  /\ LET result == split(fs[f_last.args.path].content) IN
                       /\ Len(result) = Len(lines) + Len(new_lines)
                       /\ \A i \in 1..k : result[i] = lines[i]
                       /\ \A j \in 1..Len(new_lines) : result[k + j] = new_lines[j]
                       /\ \A i \in (k + 1)..Len(lines) :
                            result[Len(new_lines) + i] = lines[i]

\* "b" inserted at line 1 of "a\nb".
C17_Witness ==
    /\ f_last.args.command = "insert"
    /\ f_last.args.insert_line = Some(1)
    /\ f_last.args.new_str = Some(<<"b">>)
    /\ Before(f_last) = <<"a", NL, "b">>
    /\ Succeeded(f_last)
    /\ fs[EditPath] = File(<<"a", NL, "b", NL, "b">>)

----------------------------------------------------------------------------
\* FileSpec: sequences of FileTool commands on two paths.

MaxCmds == 4    \* commands in a sequence

FileInit ==
    /\ \E e \in {Absent, File(<<"a">>)} :
         fs = [p \in AbsolutePaths |-> IF p = EditPath THEN e ELSE Absent]
    /\ file_history = [p \in AbsolutePaths |-> NoHistory]
    /\ f_last = NoFileCall
    /\ f_n = 0
    /\ LoopIdle /\ ConvIdle /\ HeapIdle /\ ToolIdle /\ ExtIdle /\ VoiceIdle

FileCreate ==
    /\ f_n < MaxCmds
    /\ \E path \in AbsolutePaths, fault \in {"none", "write"} :
         FileCommand(FileArgs("create", path, Some(<<"b">>), Nothing, Nothing,
                              Nothing, Nothing), fault)

FileStrReplace ==
    /\ f_n < MaxCmds
    /\ \E path \in AbsolutePaths, old_str \in {<<"a">>, <<"b">>},
          fault \in {"none", "write"} :
         FileCommand(FileArgs("str_replace", path, Nothing, Nothing, Some(old_str),
                              Some(<<"a", "b">>), Nothing), fault)

\* A file of FileSpec has at most MaxCmds + 1 lines, so MaxCmds + 2 is out of
\* range.
FileInsert ==
    /\ f_n < MaxCmds
    /\ \E path \in AbsolutePaths, insert_line \in {0, MaxCmds + 2},
          fault \in {"none", "write"} :
         FileCommand(FileArgs("insert", path, Nothing, Nothing, Nothing,
                              Some(<<"a">>), Some(insert_line)), fault)

FileUndo ==
    /\ f_n < MaxCmds
    /\ \E path \in AbsolutePaths, fault \in {"none", "stat", "write"} :
         FileCommand(FileArgs("undo_edit", path, Nothing, Nothing, Nothing,
                              Nothing, Nothing), fault)

FileView ==
    /\ f_n < MaxCmds
    /\ \E path \in AbsolutePaths \cup RelativePaths,
          view_range \in {Nothing, Some(<<>>), Some(<<1>>), Some(<<0, 1>>),
                          Some(<<1, 3>>), Some(<<1, -1>>), Some(<<1, 1>>)},
          fault \in {"none", "read"} :
         FileCommand(FileArgs("view", path, Nothing, view_range, Nothing,
                              Nothing, Nothing), fault)

FileOther ==
    /\ f_n < MaxCmds
    /\ \E command \in {"view", "rename"}, path \in {EditPath, None} :
         FileCommand(FileArgs(command, path, Nothing, Nothing, Nothing,
                              Nothing, Nothing), "none")

FileNext ==
    \/ FileCreate \/ FileStrReplace \/ FileInsert
    \/ FileUndo \/ FileView \/ FileOther

FileSpec == FileInit /\ [][FileNext]_vars

\* The step is an undo_edit, on the path of the command before it, in which
\* the file system does not fail.
UndoOfLatest ==
    /\ f_last'.args.command = "undo_edit"
    /\ f_last'.args.path = f_last.args.path
    /\ f_last'.fault = "none"
    /\ f_n' = f_n + 1

C14_Step ==
    (/\ UndoOfLatest
     /\ f_last.args.command \in {"str_replace", "insert"}
     /\ Succeeded(f_last))
    => /\ Succeeded(f_last')
       /\ fs'[f_last.args.path] = f_last.before.fs[f_last.args.path]

C14_Inv ==
    (/\ f_last.args.command = "undo_edit"
     /\ is_absolute(f_last.args.path)
     /\ f_last.before.hist[f_last.args.path].stack = <<>>)
    => /\ Failed(f_last)
       /\ fs = f_last.before.fs

\* C14: an undo_edit right after a successful str_replace or insert restores
\* the content the file had before that command; an undo_edit on a path whose
\* history is empty or absent returns an error and leaves the file untouched.
C14_UndoRestores == []C14_Inv /\ [][C14_Step]_vars

\* "a" edited to "ab", then to "a\nab", and the second edit undone.
C14_Witness ==
    /\ f_last.args.command = "undo_edit"
    /\ Succeeded(f_last)
    /\ f_last.before.fs[EditPath] = File(<<"a", NL, "a", "b">>)
    /\ f_last.before.hist[EditPath].stack = <<<<"a">>, <<"a", "b">>>>
    /\ fs[EditPath] = File(<<"a", "b">>)

Mutating == {"create", "str_replace", "insert"}

\* The undo stack of a path, empty when the path has none.
Stack(hist_, path) == hist_[path].stack

\* What the step's command does to the undo stacks, if they are the pre-edit
\* contents of the successful mutating commands not yet undone.
C15_StackStep ==
    f_n' = f_n + 1 =>
      LET c == f_last'
          p == c.args.path
      IN  IF ~is_absolute(p)
          THEN \A q \in AbsolutePaths : Stack(file_history', q) = Stack(file_history, q)
          ELSE
            /\ \A q \in AbsolutePaths \ {p} :
                 Stack(file_history', q) = Stack(file_history, q)
            /\ IF c.args.command \in Mutating /\ Succeeded(c)
               THEN Stack(file_history', p) = Append(Stack(file_history, p), fs[p].content)
               ELSE IF c.args.command = "undo_edit" /\ Succeeded(c)
               THEN /\ Stack(file_history, p) # <<>>
                    /\ Stack(file_history', p) =
                         SubSeq(Stack(file_history, p), 1, Len(Stack(file_history, p)) - 1)
                    /\ fs'[p] = File(Stack(file_history, p)[Len(Stack(file_history, p))])
               ELSE Stack(file_history', p) = Stack(file_history, p)

\* One undo after one edit: the path is as it was before the edit.
C15_UndoStep ==
    (/\ UndoOfLatest
     /\ f_last.args.command \in Mutating
     /\ Succeeded(f_last)
     /\ Succeeded(f_last'))
    => fs'[f_last.args.path] = f_last.before.fs[f_last.args.path]

\* C15: the undo stack of each path is exactly the sequence of pre-edit
\* contents of the successful mutating commands (create, str_replace, insert)
\* not yet undone: such a command pushes the content it found, a successful
\* undo_edit pops the latest and writes it back, failed commands and view
\* leave the stack as it is; so k undos after k edits restore the content
\* before the first of them.
C15_StackIsPreEditContents == [][C15_StackStep /\ C15_UndoStep]_vars

----------------------------------------------------------------------------
\* ComputerTool

ComputerActions ==
    {"key", "type", "mouse_move", "left_click", "left_click_drag", "right_click",
     "middle_click", "double_click", "screenshot", "cursor_position"}

\* One operation on the desktop or the operating system, with its arguments.
Event(op, arg) == [op |-> op, arg |-> arg]

\* The pyautogui calls that move the mouse or press keys.
InputOps ==
    {"moveTo", "mouseDown", "mouseUp", "click", "doubleClick", "hotkey", "write"}

InputsDone(events) == Len(SelectSeq(events, LAMBDA e : e.op \in InputOps))

\* base64 of a capture of the screen as it is after n input operations.
Screenshot(n) == "png-after-" \o ToString(n)

\* What the desktop does during a call: nothing unusual, the first pyautogui
\* input or position call raises (the fail-safe), the capture raises, or the
\* saved file is not there afterwards.
ComputerFaults == {"none", "input", "capture", "missing"}

Done(events, ret) == [events |-> events, ret |-> ret]

Pt(x, y) == ToString(x) \o "," \o ToString(y)

\* Mutant: the image is a capture made before the operations in events.
take_screenshot_Early(events, output_msg, env) ==
    LET slept == Append(events, Event("sleep", "")) IN
      IF env.fail = "capture"
      THEN Done(Append(slept, Event("screenshot", "")), Raise("OSError"))
      ELSE LET saved == slept \o <<Event("screenshot", ""), Event("save", "")>> IN
        IF env.fail = "missing"
        THEN Done(saved, Return(ToolResult(None, "Failed to take screenshot",
                                           None, None)))
        ELSE Done(saved, Return(ToolResult(output_msg, None, Screenshot(0), None)))

\* ComputerTool.take_screenshot, after the operations in events.
take_screenshot(events, output_msg, env) ==
    LET slept == Append(events, Event("sleep", "")) IN
      IF env.fail = "capture"
      THEN Done(Append(slept, Event("screenshot", "")), Raise("OSError"))
      ELSE LET saved == slept \o <<Event("screenshot", ""), Event("save", "")>> IN
        IF env.fail = "missing"
        THEN Done(saved, Return(ToolResult(None, "Failed to take screenshot",
                                           None, None)))
        ELSE Done(saved, Return(ToolResult(output_msg, None,
                                           Screenshot(InputsDone(events)), None)))

\* Mutant: the parameters are checked after a capture of the screen.
Rejected_AfterCapture(error) ==
    Done(<<Event("screenshot", "")>>, Return(ToolResult(None, error, None, None)))

Rejected(error) == Done(<<>>, Return(ToolResult(None, error, None, None)))

FailSafe == Done(<<>>, Raise("FailSafeException"))

\* ComputerTool.__call__(action=, text=, coordinate=)
computer_call(action, text, coordinate, env) ==
    IF action \in {"mouse_move", "left_click_drag"}
    THEN IF coordinate = Nothing
         THEN Rejected("coordinate is required for " \o action)
         ELSE IF text # Nothing
         THEN Rejected("text is not accepted for " \o action)
         ELSE IF Len(coordinate[1]) < 2
         THEN Done(<<>>, Raise("IndexError"))
         ELSE LET x == coordinate[1][1]
                  y == coordinate[1][2]
                  current_x == env.pos[1]
                  current_y == env.pos[2]
              IN  IF env.fail = "input" THEN FailSafe
                  ELSE IF action = "mouse_move"
                  THEN take_screenshot(<<Event("moveTo", Pt(x, y))>>,
                                       "Mouse moved to " \o ToString(x) \o ", "
                                           \o ToString(y), env)
                  ELSE take_screenshot(
                         <<Event("position", ""),
                           Event("mouseDown", Pt(current_x, current_y)),
                           Event("moveTo", Pt(x, y)),
                           Event("mouseUp", Pt(x, y))>>,
                         "Mouse dragged from " \o Pt(current_x, current_y)
                             \o " to " \o Pt(x, y), env)
    ELSE IF action \in {"key", "type"}
    THEN IF text = Nothing
         THEN Rejected("text is required for " \o action)
         ELSE IF coordinate # Nothing
         THEN Rejected("coordinate is not accepted for " \o action)
         ELSE IF env.fail = "input" THEN FailSafe
         ELSE IF action = "key"
         THEN take_screenshot(<<Event("hotkey", text[1])>>,
                              "Pressed key: " \o text[1], env)
         ELSE take_screenshot(<<Event("write", text[1])>>,
                              "Typed: " \o text[1], env)
    ELSE IF action \in {"left_click", "right_click", "middle_click", "double_click",
                        "screenshot", "cursor_position"}
    THEN IF text # Nothing
         THEN Rejected("text is not accepted for " \o action)
         ELSE IF coordinate # Nothing /\ action # "left_click"
         THEN Rejected("coordinate is not accepted for " \o action)
         ELSE IF action = "screenshot"
         THEN take_screenshot(<<>>, "Screenshot taken", env)
         ELSE IF action = "cursor_position"
         THEN IF env.fail = "input" THEN FailSafe
              ELSE Done(<<Event("position", "")>>,
                        Return(ToolResult("X=" \o ToString(env.pos[1]) \o ",Y="
                                              \o ToString(env.pos[2]),
                                          None, None, None)))
         ELSE IF action = "left_click" /\ coordinate # Nothing
                   /\ Len(coordinate[1]) = 1
         THEN Done(<<>>, Raise("IndexError"))
         ELSE IF env.fail = "input" THEN FailSafe
         ELSE take_screenshot(
                <<IF action = "left_click"
                  THEN IF coordinate # Nothing /\ coordinate[1] # <<>>
                       THEN Event("click", "left " \o Pt(coordinate[1][1],
                                                         coordinate[1][2]))
                       ELSE Event("click", "left")
                  ELSE IF action = "right_click" THEN Event("click", "right")
                  ELSE IF action = "middle_click" THEN Event("click", "middle")
                  ELSE Event("doubleClick", "")>>,
                "Performed " \o action, env)
    ELSE Rejected("Invalid action: " \o action)

----------------------------------------------------------------------------
\* CommandTool

\* What a pipe of the finished process holds: nothing, text, or bytes that
\* are not UTF-8.
Streams == {"", "text", "undecodable"}

\* How the command goes: the shell cannot be started, the 60 s pass before
\* the process ends, or the process ends with its two streams.
CommandRuns ==
    {[how |-> "nospawn", stdout |-> "", stderr |-> ""],
     [how |-> "timeout", stdout |-> "", stderr |-> ""]}
    \cup {[how |-> "exit", stdout |-> o, stderr |-> e] : o \in Streams, e \in Streams}

\* CommandTool.__call__(command=, restart=)
command_call(command, restart, env) ==
    IF restart
    THEN Done(<<>>, Return(ToolResult(None, None, None,
                                      "Command tool has been restarted.")))
    ELSE IF command = Nothing
    THEN Done(<<>>, Return(ToolResult(None, "No command provided.", None, None)))
    ELSE IF env.how = "nospawn"
    THEN Done(<<Event("create_subprocess_shell", command[1])>>, Raise("OSError"))
    ELSE IF env.how = "timeout"
    THEN Done(<<Event("create_subprocess_shell", command[1]), Event("kill", "")>>,
              Return(ToolResult(None, "Command timed out after 60 seconds",
                                None, None)))
    ELSE IF "undecodable" \in {env.stdout, env.stderr}
    THEN Done(<<Event("create_subprocess_shell", command[1])>>,
              Raise("UnicodeDecodeError"))
    ELSE Done(<<Event("create_subprocess_shell", command[1])>>,
              Return(ToolResult(IF env.stdout # "" THEN env.stdout ELSE None,
                                IF env.stderr # "" THEN env.stderr ELSE None,
                                None, None)))

----------------------------------------------------------------------------
\* ToolSpec: one call of one of the three tools.

Coordinates == {<<>>, <<5>>, <<5, 7>>}

ToolInit ==
    /\ t_pc = "ready"
    /\ t_call = NoToolCall
    /\ t_events = <<>>
    /\ t_outcome = NoOutcome
    /\ \E e \in {Absent, File(<<"a">>)} :
         fs = [p \in AbsolutePaths |-> IF p = EditPath THEN e ELSE Absent]
    /\ file_history = [p \in AbsolutePaths |-> NoHistory]
    /\ f_last = NoFileCall
    /\ f_n = 0
    /\ LoopIdle /\ ConvIdle /\ HeapIdle /\ ExtIdle /\ VoiceIdle

Called(call, r) ==
    /\ t_pc' = "done"
    /\ t_call' = call
    /\ t_events' = r.events
    /\ t_outcome' = r.ret
    /\ UNCHANGED notTool

ComputerCall ==
    /\ t_pc = "ready" /\ f_n = 0
    /\ \E action \in ComputerActions \cup {"scroll"}, text \in Opt({"a"}),
          coordinate \in Opt(Coordinates), fail \in ComputerFaults,
          pos \in {<<0, 0>>, <<3, 4>>} :
         LET env == [fail |-> fail, pos |-> pos] IN
           Called([tool |-> "computer", action |-> action, text |-> text,
                   coordinate |-> coordinate, env |-> env],
                  computer_call(action, text, coordinate, env))

CommandCall ==
    /\ t_pc = "ready" /\ f_n = 0
    /\ \E command \in Opt({"dir"}), restart \in BOOLEAN, env \in CommandRuns :
         Called([tool |-> "command", command |-> command, restart |-> restart,
                 env |-> env],
                command_call(command, restart, env))

FileToolCall ==
    /\ t_pc = "ready" /\ f_n = 0
    /\ \E command \in {"view", "create", "str_replace", "insert", "undo_edit",
                       "rename"},
          path \in AbsolutePaths \cup RelativePaths \cup {None},
          given \in Opt({<<"a">>}), insert_line \in Opt({0}), fault \in Faults :
         FileCommand(FileArgs(command, path, given, Nothing, given, given,
                              insert_line), fault)

ToolNext == ComputerCall \/ CommandCall \/ FileToolCall

ToolSpec == ToolInit /\ [][ToolNext]_vars

\* C11: the call of each concrete tool (ComputerTool, CommandTool, FileTool)
\* returns a ToolResult and never raises, whatever the parameters and
\* whichever operation of the operating system fails.
C11_ToolsNeverRaise ==
    /\ t_pc = "done" => t_outcome.kind = "return"
    /\ f_n > 0 => f_last.ret.kind = "return"

\* The parameter combinations ComputerTool does not accept.
Forbidden(c) ==
    /\ c.tool = "computer"
    /\ \/ /\ c.action \in {"mouse_move", "left_click_drag"}
          /\ c.coordinate = Nothing \/ c.text # Nothing
       \/ /\ c.action \in {"key", "type"}
          /\ c.text = Nothing \/ c.coordinate # Nothing
       \/ /\ c.action \in {"left_click", "right_click", "middle_click",
                           "double_click", "screenshot", "cursor_position"}
          /\ c.text # Nothing
       \/ /\ c.action \in {"right_click", "middle_click", "double_click",
                           "screenshot", "cursor_position"}
          /\ c.coordinate # Nothing
       \/ c.action \notin ComputerActions

\* C18: ComputerTool answers every forbidden parameter combination with an
\* error result and performs no mouse or keyboard operation and no capture
\* for it; an unknown action yields the error "Invalid action: <action>".
C18_ForbiddenRejected ==
    Forbidden(t_call) =>
      /\ t_outcome.kind = "return"
      /\ t_outcome.value.error # None
      /\ t_outcome.value.output = None
      /\ t_events = <<>>
      /\ t_call.action \notin ComputerActions
           => t_outcome.value.error = "Invalid action: " \o t_call.action

\* key with a coordinate, on a desktop whose next input call would raise.
C18_Witness ==
    /\ t_call.tool = "computer"
    /\ t_call.action = "key"
    /\ t_call.text = Some("a")
    /\ t_call.coordinate = Some(<<5, 7>>)
    /\ t_call.env.fail = "input"
    /\ t_outcome = Return(ToolResult(None, "coordinate is not accepted for key",
                                     None, None))
    /\ t_events = <<>>

\* C19: a successful result of a ComputerTool action other than
\* cursor_position carries an image captured after the action was performed;
\* a cursor_position result carries an output and no image; an error result
\* of the parameter validation carries no image.
C19_ScreenshotFollowsAction ==
    (t_call.tool = "computer" /\ t_outcome.kind = "return") =>
      LET r == t_outcome.value IN
        /\ (r.error = None /\ t_call.action # "cursor_position") =>
             /\ r.base64_image = Screenshot(InputsDone(t_events))
             /\ t_call.action # "screenshot" => InputsDone(t_events) >= 1
             /\ \E i \in 1..Len(t_events) :
                  /\ t_events[i].op = "screenshot"
                  /\ \A j \in 1..Len(t_events) :
                       t_events[j].op \in InputOps => j < i
        /\ (r.error = None /\ t_call.action = "cursor_position") =>
             /\ r.output # None
             /\ r.base64_image = None
        /\ Forbidden(t_call) => r.base64_image = None

\* A drag to (5, 7): three mouse operations, then the capture.
C19_Witness ==
    /\ t_call.tool = "computer"
    /\ t_call.action = "left_click_drag"
    /\ t_outcome.kind = "return"
    /\ t_outcome.value.output = "Mouse dragged from 3,4 to 5,7"
    /\ t_outcome.value.base64_image = Screenshot(3)
    /\ t_events[Len(t_events)].op = "save"

\* C20: a command still running when the timeout fires is killed and the
\* result has the timeout message as error and no output; a command that
\* finishes before the timeout yields output = its stdout and error = its
\* stderr, each of them absent (not an empty string) when the stream is empty.
C20_TimeoutOrStreams ==
    (/\ t_call.tool = "command"
     /\ ~t_call.restart
     /\ t_call.command # Nothing
     /\ t_call.env.how # "nospawn")
    => IF t_call.env.how = "timeout"
       THEN /\ \E i \in 1..Len(t_events) : t_events[i].op = "kill"
            /\ t_outcome = Return(ToolResult(None,
                                             "Command timed out after 60 seconds",
                                             None, None))
       ELSE /\ t_outcome.kind = "return"
            /\ t_outcome.value.output =
                 IF t_call.env.stdout = "" THEN None ELSE t_call.env.stdout
            /\ t_outcome.value.error =
                 IF t_call.env.stderr = "" THEN None ELSE t_call.env.stderr

----------------------------------------------------------------------------
\* Extensions: Extension, ExtensionRegistry, ExtensionManager, and the
\* tool_map of ToolCollection.

MaxExt == 3     \* Extension objects created in a run
MaxCalls == 4   \* calls made in a run

ExtNames == {"web_search", "speech_recognition"}

\* A config mapping with its two possible keys, each omitted or given; {} has
\* both omitted.
ConfigDict(enabled, model_size) == [enabled |-> enabled, model_size |-> model_size]

EmptyDict == ConfigDict("omitted", "omitted")

ConfigDicts ==
    {EmptyDict, ConfigDict("false", "omitted"), ConfigDict("true", "base")}

\* Extension.__init__
NewExtension(name) == [name |-> name, enabled |-> TRUE, config |-> EmptyDict]

\* self.extensions.get(extension_name): 0 is None.
get_extension(reg, name) == IF name \in DOMAIN reg THEN reg[name] ELSE 0

\* Mutant: a name already registered keeps its extension.
register_KeepsFirst(reg, name, ext) ==
    IF get_extension(reg, name) # 0 THEN reg ELSE [reg EXCEPT ![name] = ext]

\* ExtensionRegistry.register
register(reg, name, ext) == [reg EXCEPT ![name] = ext]

\* What extension.execute does when awaited: returns a value or raises.
ExecOutcomes ==
    {[raised |-> FALSE, value |-> "result"], [raised |-> FALSE, value |-> None],
     [raised |-> TRUE, value |-> None]}

\* Mutant: the enabled flag is not looked at.
execute_extension_IgnoresEnabled(inst, reg, name, outcome) ==
    LET extension == get_extension(reg, name) IN
      IF extension = 0
      THEN [invoked |-> 0, raised |-> FALSE, ret |-> None]
      ELSE IF outcome.raised
      THEN [invoked |-> extension, raised |-> FALSE, ret |-> None]
      ELSE [invoked |-> extension, raised |-> FALSE, ret |-> outcome.value]

\* ExtensionManager.execute_extension: the object whose execute was awaited
\* (0: none), whether the call raised, and what it returned.
execute_extension(inst, reg, name, outcome) ==
    LET extension == get_extension(reg, name) IN
      IF extension = 0
      THEN [invoked |-> 0, raised |-> FALSE, ret |-> None]
      ELSE IF ~inst[extension].enabled
      THEN [invoked |-> 0, raised |-> FALSE, ret |-> None]
      ELSE IF outcome.raised
      THEN [invoked |-> extension, raised |-> FALSE, ret |-> None]
      ELSE [invoked |-> extension, raised |-> FALSE, ret |-> outcome.value]

\* The config file: none (no path given, or not a file), one json.load
\* cannot read, or its 'extensions' mapping, name -> config (Nothing: not
\* listed).
ConfigFiles ==
    {[kind |-> "none", extensions |-> [n \in ExtNames |-> Nothing]],
     [kind |-> "malformed", extensions |-> [n \in ExtNames |-> Nothing]]}
    \cup {[kind |-> "json", extensions |-> x] : x \in [ExtNames -> Opt(ConfigDicts)]}

\* ExtensionManager._load_config: the objects after it.
load_config(inst, reg, file) ==
    IF file.kind # "json" THEN inst
    ELSE [i \in DOMAIN inst |->
            IF \E n \in ExtNames : file.extensions[n] # Nothing
                                     /\ get_extension(reg, n) = i
            THEN LET n == CHOOSE m \in ExtNames :
                            file.extensions[m] # Nothing /\ get_extension(reg, m) = i
                     ext_config == file.extensions[n][1]
                 IN  [name |-> inst[i].name,
                      enabled |-> ext_config.enabled # "false",
                      config |-> ext_config]
            ELSE inst[i]]

\* ExtensionRegistry.discover_extensions: every class found is instantiated
\* and registered, in the order found.
RECURSIVE discover_extensions(_, _, _)
discover_extensions(inst, reg, found) ==
    IF found = <<>> THEN [inst |-> inst, reg |-> reg]
    ELSE discover_extensions(Append(inst, NewExtension(Head(found))),
                             register(reg, Head(found), Len(inst) + 1),
                             Tail(found))

\* ExtensionManager.initialize
initialize(inst, reg, file, found) ==
    discover_extensions(load_config(inst, reg, file), reg, found)

\* {tool.name: tool for tool in tools}, by position in tools (0: no entry)
RECURSIVE tool_map(_, _)
tool_map(tools, n) ==
    IF n = 0 THEN [name \in tool_names |-> 0]
    ELSE [tool_map(tools, n - 1) EXCEPT ![tools[n]] = n]

----------------------------------------------------------------------------
\* ExtSpec: calls on one ExtensionManager, and runs of small ToolCollections.

ExtInit ==
    /\ x_inst = <<>>
    /\ x_reg = [n \in ExtNames |-> 0]
    /\ x_last = NoExtCall
    /\ x_n = 0
    /\ LoopIdle /\ ConvIdle /\ HeapIdle /\ FileIdle /\ ToolIdle /\ VoiceIdle

\* registry.register(extension) with a new extension object
Register ==
    /\ x_n < MaxCalls /\ x_n' = x_n + 1
    /\ Len(x_inst) < MaxExt
    /\ \E name \in ExtNames :
         /\ x_inst' = Append(x_inst, NewExtension(name))
         /\ x_reg' = register(x_reg, name, Len(x_inst) + 1)
         /\ x_last' = [op |-> "register", name |-> name]
    /\ UNCHANGED notExt

\* enable_extension / disable_extension
SetEnabled ==
    /\ x_n < MaxCalls /\ x_n' = x_n + 1
    /\ \E name \in ExtNames, flag \in BOOLEAN :
         /\ x_inst' = [i \in DOMAIN x_inst |->
                         IF i = get_extension(x_reg, name)
                         THEN [x_inst[i] EXCEPT !.enabled = flag] ELSE x_inst[i]]
         /\ x_last' = [op |-> IF flag THEN "enable_extension" ELSE "disable_extension",
                       name |-> name]
    /\ UNCHANGED <<x_reg, notExt>>

ExecuteExtension ==
    /\ x_n < MaxCalls /\ x_n' = x_n + 1
    /\ \E name \in ExtNames, outcome \in ExecOutcomes :
         x_last' = [op |-> "execute_extension", name |-> name, outcome |-> outcome,
                    did |-> execute_extension(x_inst, x_reg, name, outcome)]
    /\ UNCHANGED <<x_inst, x_reg, notExt>>

\* initialize is the first call on the manager, or follows one register.
Initialize ==
    /\ x_n <= 1 /\ x_n' = x_n + 1
    /\ x_last.op \in {"none", "register"}
    /\ \E file \in ConfigFiles,
          found \in {<<>>} \cup {<<n>> : n \in ExtNames}
                     \cup {<<n, m>> : n \in ExtNames, m \in ExtNames} :
         /\ Len(x_inst) + Len(found) <= MaxExt
         /\ LET r == initialize(x_inst, x_reg, file, found) IN
              /\ x_inst' = r.inst
              /\ x_reg' = r.reg
         /\ x_last' = [op |-> "initialize", file |-> file, found |-> found]
    /\ UNCHANGED notExt

\* ToolCollection(*tools).run(name=name) on a collection of its own: the
\* position of the tool called.
CollectionRun ==
    /\ x_n = 0 /\ x_n' = x_n + 1
    /\ \E tools \in {<<a>> : a \in tool_names}
                     \cup {<<a, b>> : a \in tool_names, b \in tool_names},
          name \in tool_names :
         x_last' = [op |-> "run", tools |-> tools, name |-> name,
                    did |-> tool_map(tools, Len(tools))[name]]
    /\ UNCHANGED <<x_inst, x_reg, notExt>>

ExtNext ==
    Register \/ SetEnabled \/ ExecuteExtension \/ Initialize \/ CollectionRun

ExtSpec == ExtInit /\ [][ExtNext]_vars

\* C21: execute_extension never raises; it returns None without calling
\* execute when the name is not registered or the extension is disabled; when
\* the extension is registered and enabled it awaits its execute and returns
\* what that returned, or None if it raised.
C21_ExecuteGated ==
    x_last.op = "execute_extension" =>
      LET e == get_extension(x_reg, x_last.name)
          d == x_last.did
      IN  /\ ~d.raised
          /\ (e = 0 \/ ~x_inst[e].enabled) => d.invoked = 0 /\ d.ret = None
          /\ (e # 0 /\ x_inst[e].enabled) =>
               /\ d.invoked = e
               /\ d.ret = IF x_last.outcome.raised THEN None ELSE x_last.outcome.value

\* A registered, disabled extension whose execute would have returned a value.
C21_Witness ==
    /\ x_last.op = "execute_extension"
    /\ get_extension(x_reg, x_last.name) # 0
    /\ ~x_inst[get_extension(x_reg, x_last.name)].enabled
    /\ x_last.outcome = [raised |-> FALSE, value |-> "result"]
    /\ x_last.did = [invoked |-> 0, raised |-> FALSE, ret |-> None]

\* The latest of the objects (0: none), by position, that carry the name.
Latest(names, name) ==
    IF \E i \in 1..Len(names) : names[i] = name
    THEN CHOOSE i \in 1..Len(names) :
           names[i] = name /\ \A j \in (i + 1)..Len(names) : names[j] # name
    ELSE 0

ExtensionNames == [i \in 1..Len(x_inst) |-> x_inst[i].name]

\* C22: registration under a name already used is last-write-wins: after it,
\* get_extension and execute_extension reach the later extension only and the
\* registry has one entry for the name; a ToolCollection built with two tools
\* of one name dispatches run(name) to the later one.
C22_LastWriteWins ==
    /\ x_last.op = "register" =>
         /\ get_extension(x_reg, x_last.name) = Len(x_inst)
         /\ Cardinality({n \in DOMAIN x_reg : n = x_last.name /\ x_reg[n] # 0}) = 1
    /\ (x_last.op = "execute_extension" /\ x_last.did.invoked # 0) =>
         x_last.did.invoked = Latest(ExtensionNames, x_last.name)
    /\ x_last.op = "run" => x_last.did = Latest(x_last.tools, x_last.name)

\* Two extensions registered as web_search, the second one executed.
C22_Witness ==
    /\ x_last.op = "execute_extension"
    /\ x_last.name = "web_search"
    /\ Len(x_inst) >= 2
    /\ x_inst[1].name = "web_search"
    /\ x_inst[2].name = "web_search"
    /\ x_last.did.invoked = 2

\* C26: after initialize(config_file), every discovered extension the file
\* lists has the file's config mapping loaded and its enabled flag equal to
\* the file's enabled value (true when omitted); a discovered extension listed
\* with enabled = false is disabled.
C26_ConfigAppliedToDiscovered ==
    (x_last.op = "initialize" /\ x_last.file.kind = "json") =>
      \A n \in ExtNames :
        (/\ \E i \in 1..Len(x_last.found) : x_last.found[i] = n
         /\ x_last.file.extensions[n] # Nothing)
        => LET e == get_extension(x_reg, n)
               ext_config == x_last.file.extensions[n][1]
           IN  /\ e # 0
               /\ x_inst[e].config = ext_config
               /\ x_inst[e].enabled = (ext_config.enabled # "false")

\* C24: every ToolResult returned by a tool invocation has at most one of
\* output and error set.
C24_OutputOrError ==
    /\ (t_pc = "done" /\ t_outcome.kind = "return") =>
         (t_outcome.value.output = None \/ t_outcome.value.error = None)
    /\ (f_n > 0 /\ f_last.ret.kind = "return") =>
         (f_last.ret.value.output = None \/ f_last.ret.value.error = None)

----------------------------------------------------------------------------
\* Further properties of the sampling loop

Assistants == {j \in 1..Len(messages) : messages[j].role = "assistant"}

\* Tool dispatches started and not yet completed.
DispatchesInFlight == runs - Len(tool_cb)

\* Model calls issued and not yet answered or failed.
CallsInFlight ==
    ncalls - Cardinality(Assistants) - (IF failure # None THEN 1 ELSE 0)

C23_Inv ==
    /\ DispatchesInFlight \in {0, 1}
    /\ CallsInFlight \in {0, 1}
    /\ DispatchesInFlight + CallsInFlight <= 1

C23_Step ==
    /\ runs' = runs + 1 =>
         /\ DispatchesInFlight = 0
         /\ Len(tool_result_content) =
              Len(ToolUses(SubSeq(response_params, 1, idx - 1)))
    /\ (ncalls' = ncalls + 1 /\ Assistants # {}) =>
         /\ DispatchesInFlight = 0
         /\ Len(Last(messages).content) =
              Len(ToolUses(messages[Len(messages) - 1].content))

\* C23: the loop is sequential: the dispatch of a tool invocation starts only
\* when the dispatches of the invocations before it in the response have
\* completed, the next model call is issued only when every dispatch of the
\* turn has completed, and never is more than one dispatch or model call in
\* flight.
C23_Sequential == []C23_Inv /\ [][C23_Step]_vars

\* The second dispatch of a turn in flight, the first one completed.
C23_Witness ==
    /\ pc = "dispatching"
    /\ ncalls = 1
    /\ runs = 2
    /\ Len(tool_cb) = 1
    /\ Len(ToolUses(response_params)) >= 2

NonText(content) == SelectSeq(content, LAMBDA b : b.type # "text")

\* Every user message after the first holds one tool_result item for each
\* block of the response before it that Dispatched selects, and a response
\* with such a block does not end the loop.
OneResultPer(Dispatched(_)) ==
    /\ \A j \in FoldedAt :
         /\ Len(messages[j].content) = Len(Dispatched(messages[j - 1].content))
         /\ \A i \in 1..Len(messages[j].content) :
              messages[j].content[i].type = "tool_result"
    /\ (pc = "done" /\ failure = None) => Dispatched(Last(messages).content) = <<>>
    /\ (pc = "call" /\ Len(messages) > 1) =>
         Len(tool_cb) = SumLen([j \in 1..Len(messages) |->
                                  [role |-> messages[j].role,
                                   content |-> IF messages[j].role = "assistant"
                                               THEN Dispatched(messages[j].content)
                                               ELSE <<>>]])

\* C25 as stated: every block of a response that is not a plain text block is
\* dispatched through ToolCollection and yields exactly one tool_result item
\* in the following user message; a response with a non-text block never ends
\* the loop.
C25_NonTextDispatched == OneResultPer(NonText)

\* C25 amended: the same for every block of type tool_use; a block of any
\* other type is passed on as it is.
C25_ToolUseDispatched == OneResultPer(ToolUses)

\* A response with a redacted_thinking block and a tool_use block, answered
\* with one tool_result item.
C25_Witness ==
    /\ Len(messages) >= 3
    /\ Len(messages[2].content) = 2
    /\ messages[2].content[1].type = "redacted_thinking"
    /\ messages[2].content[2].type = "tool_use"
    /\ Len(messages[3].content) = 1
    /\ messages[3].content[1].tool_use_id = messages[2].content[2].id

C28_Inv ==
    /\ \A j \in 1..Len(messages) :
         messages[j].role = IF j % 2 = 1 THEN "user" ELSE "assistant"
    /\ \A j \in FoldedAt :
         \A i \in 1..Len(messages[j].content) :
           messages[j].content[i].type = "tool_result"
    /\ pc = "awaiting" =>
         /\ sent = messages
         /\ Last(sent).role = "user"

C28_Step ==
    /\ Len(messages') >= Len(messages)
    /\ \A j \in 1..Len(messages) : messages'[j] = messages[j]
    /\ messages # <<>> => messages'[1] = messages[1]

\* C28: the roles of the log alternate user, assistant, user, ... from the one
\* initial user message; every later user message holds tool_result items
\* only; every model call is issued with the whole log, which then ends with
\* a user message; a message in the log is never modified or removed.
C28_LogAlternatesAppendOnly == []C28_Inv /\ [][C28_Step]_vars

\* The second model call, issued with a log of three messages.
C28_Witness ==
    /\ pc = "awaiting"
    /\ ncalls = 2
    /\ Len(sent) = 3
    /\ sent[3].role = "user"
    /\ sent[3].content[1].type = "tool_result"

\* C29: api_response_callback is invoked exactly once for each model call:
\* with None when the call and the parsing of its response succeed, with the
\* error when the call is rejected, the response malformed or the transport
\* fails.
C29_OneCallbackPerCall ==
    /\ Len(api_cb) = ncalls - CallsInFlight
    /\ \A k \in 1..Len(api_cb) :
         api_cb[k] = IF k = ncalls /\ failure # None THEN failure ELSE None

----------------------------------------------------------------------------
\* voice_interaction.py: VoiceInteraction.start_listening, stop_listening and
\* the thread running _continuous_listening.  The caller's thread and the
\* listening threads interleave at the granularity of the statements that
\* read or write self.active.

MaxThreads == 3   \* listening threads started in a run

\* The threads that have not left _continuous_listening.
Running == {i \in 1..Len(v_threads) : v_threads[i] # "exited"}

VoiceInit ==
    /\ v_active = FALSE
    /\ v_threads = <<>>
    /\ v_last = "none"
    /\ v_speech_recognition \in BOOLEAN
    /\ LoopIdle /\ ConvIdle /\ HeapIdle /\ FileIdle /\ ToolIdle /\ ExtIdle

\* start_listening(): returns when already active or when the extension is
\* missing; else sets the flag and starts a daemon thread.
start_listening ==
    /\ v_last' = "start_listening"
    /\ IF v_active \/ ~v_speech_recognition
       THEN UNCHANGED <<v_active, v_threads>>
       ELSE /\ Len(v_threads) < MaxThreads
            /\ v_active' = TRUE
            /\ v_threads' = Append(v_threads, "setup")
    /\ UNCHANGED <<v_speech_recognition, notVoice>>

\* stop_listening(): clears the flag and returns.
stop_listening ==
    /\ v_active' = FALSE
    /\ v_last' = "stop_listening"
    /\ UNCHANGED <<v_threads, v_speech_recognition, notVoice>>

\* _continuous_listening up to the loop: set_model and the announcement,
\* neither of which raises.
ListeningSetup ==
    \E i \in 1..Len(v_threads) :
      /\ v_threads[i] = "setup"
      /\ v_threads' = [v_threads EXCEPT ![i] = "test"]
      /\ UNCHANGED <<v_active, v_last, v_speech_recognition, notVoice>>

\* while self.active:
ListeningTest ==
    \E i \in 1..Len(v_threads) :
      /\ v_threads[i] = "test"
      /\ v_threads' = [v_threads EXCEPT ![i] = IF v_active THEN "listen_once"
                                                ELSE "exited"]
      /\ UNCHANGED <<v_active, v_last, v_speech_recognition, notVoice>>

\* What one pass of the loop body hears and what _process_speech does with it.
Heard == {"nothing", "speech", "handler raises", "deactivation command"}

\* The loop body: listen_once, _process_speech, sleep.  A deactivation
\* command clears the flag; an exception out of the message handler leaves
\* the loop through the except clause with the flag as it is.
ListeningBody ==
    \E i \in 1..Len(v_threads), heard \in Heard :
      /\ v_threads[i] = "listen_once"
      /\ v_threads' = [v_threads EXCEPT ![i] = IF heard = "handler raises"
                                                THEN "exited" ELSE "test"]
      /\ v_active' = IF heard = "deactivation command" THEN FALSE ELSE v_active
      /\ UNCHANGED <<v_last, v_speech_recognition, notVoice>>

VoiceNext ==
    \/ start_listening
    \/ stop_listening
    \/ ListeningSetup
    \/ ListeningTest
    \/ ListeningBody

VoiceSpec == VoiceInit /\ [][VoiceNext]_vars

C27_Step ==
    (v_last = "stop_listening" /\ v_last' = "stop_listening") =>
      \A i \in 1..Len(v_threads) : v_threads'[i] = "listen_once" =>
                                     v_threads[i] = "listen_once"

\* C27: stop_listening clears the active flag and waits for the listening
\* loop to see it: when stop_listening has returned, every loop started by
\* start_listening has exited, and no loop starts a listen_once call from
\* then on.
C27_StopWaits ==
    /\ [](v_last = "stop_listening" => (~v_active /\ Running = {}))
    /\ [][C27_Step]_vars

C30_Step ==
    (v_active /\ v_last' = "start_listening") => v_threads' = v_threads

\* C30: under every interleaving of start_listening and stop_listening calls
\* with the listening threads at most one thread is running
\* _continuous_listening, and start_listening while active starts no thread.
C30_AtMostOneLoop ==
    /\ [](Cardinality(Running) <= 1)
    /\ [][C30_Step]_vars

====
